---- MODULE Spec2Model ----
(***************************************************************************)
(* The task scheduler (AceGenerator, src/src/ace_generator.rs) and the     *)
(* problem state machine (AceProblem, src/src/ace_problem.rs) of the       *)
(* sim2real evaluation harness, with the call-list decoder                 *)
(* (src/src/parse_ast.rs) that the agent protocol consults.                *)
(*                                                                         *)
(* A response text is a sequence of tokens.  A file is the sequence of its *)
(* lines.  A process abort (panic!, assert!, expect) is recorded in the    *)
(* variable panic; a dead process can only be started again.               *)
(***************************************************************************)
EXTENDS Integers, Sequences, FiniteSets, TLC

\* ------------------------------------------------------------------------
\* Program constants

\* const MAX_TURNS: usize = 20
MAX_TURNS == 20

\* ------------------------------------------------------------------------
\* Bounds of the model

\* tasks the coordinator keeps in flight at once (Spec)
MaxInFlight == 2
\* responses given to the agent problems that are still unfinished, in all (Spec)
MaxLiveSteps == 2
\* responses the environment gives one agent problem (SpecSerial)
MaxSteps == 21
\* times the simulated model changes its response text within one problem
\* (SpecSerial)
MaxSwitch == 1
\* items over all dataset files (Spec)
MaxItems == 2
\* items over all dataset files (SpecSerial)
MaxSerialItems == 1
\* items over all dataset files (SpecLive)
MaxLiveItems == 2

\* ------------------------------------------------------------------------
\* Response texts, as token sequences

FINISH_MARKER == "finish conversation"

\* tokens in which the substring "finish conversation" occurs
MarkerTokens == {"finish conversation", "'finish conversation'"}

T_FINISH == <<"finish conversation">>
T_CALLS == <<"[", "turn_on_wifi", "(", "x", "=", "1", ")", "]">>
T_CHAT == <<"hello">>
T_MALFORMED == <<"[", "f", "(">>
T_NESTED == <<"[", "f", "(", "x", "=", "g", "(", ")", ")", "]">>
\* a call without the enclosing brackets
T_BARE == <<"turn_on_wifi", "(", ")">>
\* a well-formed call list in which the marker occurs
T_FINISH_CALLS == <<"[", "turn_on_wifi", "(", "x", "=", "'finish conversation'", ")", "]">>

\* what the external model caller may answer
Texts == {T_FINISH, T_CALLS, T_CHAT, T_MALFORMED, T_NESTED}

\* what it may answer when problems are followed one at a time
SerialTexts == Texts \cup {T_FINISH_CALLS, T_BARE}

\* str::contains("finish conversation")
contains_finish(text) == \E i \in 1..Len(text) : text[i] \in MarkerTokens

\* str::starts_with("[")
starts_with_bracket(text) == Len(text) > 0 /\ text[1] = "["

\* ------------------------------------------------------------------------
\* The call-list decoder (parse_ast.rs)

Punctuation == {"[", "]", "(", ")", ",", "=", "-", "{", "}", ":", ";", "\n"}
\* integer literals that do not fit an i64
BigIntTokens == {"9223372036854775808"}
NumberTokens == {"0", "1", "2", "1.0", "1.5"} \cup BigIntTokens
StringTokens == {"'a'", "'b'", "'finish conversation'", "'wifi'", "'Wi-Fi'", "'wifi on'"}
LiteralTokens == NumberTokens \cup StringTokens
\* single words that are no identifier of the expression grammar
ProseTokens == {"hello", "finish conversation"}

IsName(t) == t \notin Punctuation /\ t \notin LiteralTokens /\ t \notin ProseTokens

NoParse == [ok |-> FALSE, ast |-> [node |-> "None"], next |-> 0]
Parsed(a, n) == [ok |-> TRUE, ast |-> a, next |-> n]

RECURSIVE ParseExpr(_, _)
RECURSIVE ParseElts(_, _, _)
RECURSIVE ParseArgs(_, _, _, _)
RECURSIVE ParsePairs(_, _, _, _)

\* elements of a list display from position i on, up to the closing "]"
ParseElts(toks, i, acc) ==
    IF i > Len(toks) THEN NoParse
    ELSE IF toks[i] = "]" THEN Parsed([node |-> "List", elts |-> acc], i + 1)
    ELSE LET e == ParseExpr(toks, i) IN
         IF ~e.ok THEN NoParse
         ELSE IF e.next > Len(toks) THEN NoParse
         ELSE IF toks[e.next] = "," /\ e.next + 1 <= Len(toks) /\ toks[e.next + 1] # "]"
              THEN ParseElts(toks, e.next + 1, Append(acc, e.ast))
         ELSE IF toks[e.next] = "]"
              THEN Parsed([node |-> "List", elts |-> Append(acc, e.ast)], e.next + 1)
         ELSE NoParse

\* arguments of a call from position i on, up to the closing ")"
ParseArgs(toks, i, args, keywords) ==
    IF i > Len(toks) THEN NoParse
    ELSE IF toks[i] = ")" THEN Parsed([args |-> args, keywords |-> keywords], i + 1)
    ELSE LET isKw == IsName(toks[i]) /\ i + 1 <= Len(toks) /\ toks[i + 1] = "="
             e == ParseExpr(toks, IF isKw THEN i + 2 ELSE i)
             args2 == IF isKw THEN args ELSE Append(args, e.ast)
             kws2 == IF isKw THEN Append(keywords, [arg |-> toks[i], value |-> e.ast])
                     ELSE keywords
         IN
         IF ~e.ok THEN NoParse
         \* a positional argument may not follow a keyword argument
         ELSE IF ~isKw /\ Len(keywords) > 0 THEN NoParse
         ELSE IF e.next > Len(toks) THEN NoParse
         ELSE IF toks[e.next] = "," /\ e.next + 1 <= Len(toks) /\ toks[e.next + 1] # ")"
              THEN ParseArgs(toks, e.next + 1, args2, kws2)
         ELSE IF toks[e.next] = ")"
              THEN Parsed([args |-> args2, keywords |-> kws2], e.next + 1)
         ELSE NoParse

\* the key : value pairs of a dict display from position i on, up to the
\* closing "}"
ParsePairs(toks, i, keys, values) ==
    IF i > Len(toks) THEN NoParse
    ELSE IF toks[i] = "}"
    THEN Parsed([node |-> "Dict", keys |-> keys, values |-> values], i + 1)
    ELSE LET k == ParseExpr(toks, i) IN
         IF ~k.ok \/ k.next > Len(toks) THEN NoParse
         ELSE IF toks[k.next] # ":" THEN NoParse
         ELSE LET v == ParseExpr(toks, k.next + 1) IN
              IF ~v.ok \/ v.next > Len(toks) THEN NoParse
              ELSE IF toks[v.next] = "," /\ v.next + 1 <= Len(toks) /\ toks[v.next + 1] # "}"
                   THEN ParsePairs(toks, v.next + 1, Append(keys, k.ast), Append(values, v.ast))
              ELSE IF toks[v.next] = "}"
                   THEN Parsed([node |-> "Dict", keys |-> Append(keys, k.ast),
                                values |-> Append(values, v.ast)], v.next + 1)
              ELSE NoParse

\* one expression of the Python grammar starting at position i
ParseExpr(toks, i) ==
    IF i > Len(toks) THEN NoParse
    ELSE LET t == toks[i] IN
         IF t \in LiteralTokens THEN Parsed([node |-> "Constant", value |-> t], i + 1)
         ELSE IF t = "-" THEN
              LET e == ParseExpr(toks, i + 1) IN
              IF e.ok THEN Parsed([node |-> "UnaryOp", operand |-> e.ast], e.next)
              ELSE NoParse
         ELSE IF t = "[" THEN ParseElts(toks, i + 1, <<>>)
         ELSE IF t = "{" THEN ParsePairs(toks, i + 1, <<>>, <<>>)
         ELSE IF IsName(t) THEN
              IF i + 1 <= Len(toks) /\ toks[i + 1] = "("
              THEN LET a == ParseArgs(toks, i + 2, <<>>, <<>>) IN
                   IF a.ok
                   THEN Parsed([node |-> "Call", func |-> t, args |-> a.ast.args,
                                keywords |-> a.ast.keywords], a.next)
                   ELSE NoParse
              ELSE Parsed([node |-> "Name", id |-> t], i + 1)
         ELSE NoParse

Ok(v) == [tag |-> "Ok", val |-> v]
Err(m) == [tag |-> "Err", val |-> m]
\* the process aborts inside the decoder
Abort(m) == [tag |-> "Panic", val |-> m]

\* a faulty parse_from_string_to_ast: one bare call is taken for a list of one
parse_from_string_to_ast_lenient(function_calls) ==
    LET p == ParseExpr(function_calls, 1) IN
    IF ~p.ok \/ p.next # Len(function_calls) + 1
    THEN Err("Python function calls parsing failed: invalid syntax")
    ELSE IF p.ast.node = "Call" THEN Ok(<<p.ast>>)
    ELSE IF p.ast.node # "List"
    THEN Err("Python function calls parsing failed: expected a list expression")
    ELSE Ok(p.ast.elts)

\* parse_from_string_to_ast: the text must be one expression, a list display
parse_from_string_to_ast(function_calls) ==
    LET p == ParseExpr(function_calls, 1) IN
    IF ~p.ok \/ p.next # Len(function_calls) + 1
    THEN Err("Python function calls parsing failed: invalid syntax")
    ELSE IF p.ast.node # "List"
    THEN Err("Python function calls parsing failed: expected a list expression")
    ELSE Ok(p.ast.elts)

\* negate_json_value
negate_json_value(value) ==
    IF value \in NumberTokens THEN Ok("-" \o value)
    ELSE Err("Cannot negate non-numeric value")

RECURSIVE ast_expr_to_structured(_)
RECURSIVE StructuredItems(_, _, _)
RECURSIVE StructuredPairs(_, _, _, _)

\* the items of a list display, left to right; the first failure ends it
StructuredItems(elts, i, acc) ==
    IF i > Len(elts) THEN Ok(acc)
    ELSE LET r == ast_expr_to_structured(elts[i]) IN
         IF r.tag = "Ok" THEN StructuredItems(elts, i + 1, Append(acc, r.val))
         ELSE r

\* the pairs of a dict display, left to right, into a serde_json::Map: a
\* later pair replaces an earlier one of the same key; a key that is no
\* string aborts
StructuredPairs(keys, values, i, map) ==
    IF i > Len(keys) THEN Ok(map)
    ELSE IF keys[i].node = "Constant" /\ keys[i].value \in StringTokens
    THEN LET val == ast_expr_to_structured(values[i]) IN
         IF val.tag # "Ok" THEN val
         ELSE StructuredPairs(keys, values, i + 1,
                  [x \in DOMAIN map \cup {keys[i].value} |->
                      IF x = keys[i].value THEN val.val ELSE map[x]])
    ELSE LET key_val == ast_expr_to_structured(keys[i]) IN
         IF key_val.tag # "Ok" THEN key_val
         ELSE Abort("Unsupported dict key type")

\* ast_expr_to_structured
ast_expr_to_structured(expr) ==
    CASE expr.node = "Constant" ->
            IF expr.value \in BigIntTokens THEN Abort("Failed to parse integer")
            ELSE Ok(expr.value)
      [] expr.node = "UnaryOp" ->
            LET operand == ast_expr_to_structured(expr.operand) IN
            IF operand.tag # "Ok" THEN operand
            ELSE LET negated == negate_json_value(operand.val) IN
                 IF negated.tag = "Ok" THEN negated
                 ELSE Abort("Cannot negate a json value")
      [] expr.node = "List" -> StructuredItems(expr.elts, 1, <<>>)
      [] expr.node = "Dict" ->
            StructuredPairs(expr.keys, expr.values, 1, [x \in {} |-> "null"])
      [] expr.node = "Name" ->
            IF expr.id \in {"True", "true"} THEN Ok("true")
            ELSE IF expr.id \in {"False", "false"} THEN Ok("false")
            ELSE IF expr.id \in {"None", "null"} THEN Ok("null")
            ELSE Err("Failed to parse python expression: unsupported name expression")
      [] expr.node = "Call" ->
            Abort("Function call expressions are not supported in parameter values")
      [] OTHER -> Err("Unsupported AST type")

RECURSIVE StructuredKeywords(_, _, _)

\* the keyword arguments of one call, in source order
StructuredKeywords(keywords, i, acc) ==
    IF i > Len(keywords) THEN Ok(acc)
    ELSE LET r == ast_expr_to_structured(keywords[i].value) IN
         IF r.tag = "Ok"
         THEN StructuredKeywords(keywords, i + 1,
                                 Append(acc, [key |-> keywords[i].arg, value |-> r.val]))
         ELSE r

RECURSIVE StructuredCalls(_, _, _)

\* the loop of parse_from_ast_to_structured
StructuredCalls(elts, i, acc) ==
    IF i > Len(elts) THEN Ok(acc)
    ELSE IF elts[i].node # "Call" THEN Err("Expected a function call expression")
    ELSE LET r == StructuredKeywords(elts[i].keywords, 1, <<>>) IN
         IF r.tag = "Ok"
         THEN StructuredCalls(elts, i + 1,
                              Append(acc, [name |-> elts[i].func, parameters |-> r.val]))
         ELSE r

\* parse_from_ast_to_structured
parse_from_ast_to_structured(function_calls_ast) ==
    StructuredCalls(function_calls_ast, 1, <<>>)

\* decode_function_list
decode_function_list(function_calls) ==
    LET function_calls_ast == parse_from_string_to_ast(function_calls) IN
    IF function_calls_ast.tag # "Ok" THEN function_calls_ast
    ELSE parse_from_ast_to_structured(function_calls_ast.val)


\* ------------------------------------------------------------------------
\* The simulated world (base_api.rs, message.rs, reminder.rs,
\* food_services.rs, world_state.rs)

\* Option<T> of a sub-state
Absent == <<>>
Present(v) == <<v>>

\* ExecutionResult::success, ExecutionResult::error
success(message) == [status |-> TRUE, message |-> message]
error(message) == [status |-> FALSE, message |-> message]

\* what one domain operation did: the sub-state as it left it, and its result
Outcome(sub_state, result) == [state |-> sub_state, result |-> result]

\* struct BaseApi
BaseApi(wifi, logged_in) == [wifi |-> wifi, logged_in |-> logged_in]

\* impl Default for BaseApi
BaseApiDefault == BaseApi(FALSE, TRUE)

\* BaseApi::turn_on_wifi
turn_on_wifi(base_api) ==
    Outcome([base_api EXCEPT !.wifi = TRUE], success("Wi-Fi has been turned on"))

\* BaseApi::login_device
login_device(base_api) ==
    Outcome([base_api EXCEPT !.logged_in = TRUE], success("Device has been logged in"))

\* struct MessageApi: the inbox holds the messages in insertion order
MessageApi(base_api, max_capacity, inbox) ==
    [base_api |-> base_api, max_capacity |-> max_capacity, inbox |-> inbox]

\* the names of the default user_list
MessageUsers == {"'Eve'", "'Frank'", "'Grace'", "'Helen'", "'Isaac'", "'Jack'"}

Message(sender, receiver, message) ==
    [sender |-> sender, receiver |-> receiver, message |-> message]

\* impl Default for MessageApi: six messages in an inbox of capacity six
MessageApiDefault ==
    MessageApi(BaseApiDefault, 6,
               << Message("'Eve'", "'Frank'", "m1"), Message("'Frank'", "'Eve'", "m2"),
                  Message("'Frank'", "'Grace'", "m3"), Message("'Grace'", "'Frank'", "m4"),
                  Message("'Helen'", "'Isaac'", "m5"), Message("'Isaac'", "'Jack'", "m6") >>)

\* MessageApi::send_message
send_message(message_api, sender_name, receiver_name, message) ==
    IF ~message_api.base_api.logged_in
    THEN Outcome(message_api, error("Device not logged in, unable to send message"))
    ELSE IF ~message_api.base_api.wifi
    THEN Outcome(message_api, error("Wi-Fi is turned off, cannot send messages at this time"))
    ELSE IF Len(message_api.inbox) >= message_api.max_capacity
    THEN Outcome(message_api, error("Inbox capacity is full. You need to ask the user which message to delete."))
    ELSE IF sender_name \notin MessageUsers \/ receiver_name \notin MessageUsers
    THEN Outcome(message_api, error("Sender or receiver does not exist"))
    ELSE Outcome([message_api EXCEPT
                     !.inbox = Append(@, Message(sender_name, receiver_name, message))],
                 success("Message successfully sent to " \o receiver_name \o "."))

\* struct ReminderApi: the reminder list holds the reminders in insertion order
ReminderApi(base_api, max_capacity, reminder_list, reminder_id_counter) ==
    [base_api |-> base_api, max_capacity |-> max_capacity,
     reminder_list |-> reminder_list, reminder_id_counter |-> reminder_id_counter]

Reminder(reminder_id, title, description, time) ==
    [reminder_id |-> reminder_id, title |-> title, description |-> description,
     time |-> time, notified |-> FALSE]

\* impl Default for ReminderApi
ReminderApiDefault ==
    ReminderApi(BaseApiDefault, 6,
                << Reminder(1001, "'Doctor's Appointment'", "d1", "'2024-07-15 09:30'"),
                   Reminder(1002, "'Team Meeting'", "d2", "'2024-07-17 11:00'"),
                   Reminder(1003, "'To-do list'", "d3", "'2024-07-16 11:00'") >>,
                3)

\* ReminderApi::add_reminder
add_reminder(reminder_api, title, description, time) ==
    IF ~reminder_api.base_api.logged_in
    THEN Outcome(reminder_api, error("Device not logged in. Unable to add a new reminder."))
    ELSE IF Len(reminder_api.reminder_list) >= reminder_api.max_capacity
    THEN Outcome(reminder_api, error("Reminder capacity is full. Unable to add a new reminder."))
    ELSE Outcome([reminder_api EXCEPT
                     !.reminder_id_counter = @ + 1,
                     !.reminder_list =
                         Append(@, Reminder(reminder_api.reminder_id_counter + 1,
                                            title, description, time))],
                 success("Reminder " \o title \o " was successfully added."))

\* ReminderApi::view_all_reminders
view_all_reminders(reminder_api) ==
    IF reminder_api.reminder_list = <<>>
    THEN Outcome(reminder_api, error("No reminders found."))
    ELSE Outcome(reminder_api, success("reminders"))

\* struct FoodPlatform: the users with their passwords, and who is logged in
FoodPlatform(base_api, users, logged_in_users) ==
    [base_api |-> base_api, users |-> users, logged_in_users |-> logged_in_users]

\* impl Default for FoodPlatform
FoodPlatformDefault ==
    FoodPlatform(BaseApiDefault,
                 [u \in {"'Eve'", "'Frank'"} |->
                     IF u = "'Eve'" THEN "'password123'" ELSE "'password456'"],
                 <<>>)

\* FoodPlatform::login_food_platform
login_food_platform(food_platform, username, password) ==
    IF ~food_platform.base_api.wifi
    THEN Outcome(food_platform, error("Wi-Fi is not enabled, unable to login"))
    ELSE IF username \notin DOMAIN food_platform.users
    THEN Outcome(food_platform, error("User does not exist"))
    ELSE IF food_platform.users[username] # password
    THEN Outcome(food_platform, error("Incorrect password"))
    ELSE IF \E i \in 1..Len(food_platform.logged_in_users) :
                food_platform.logged_in_users[i] = username
    THEN Outcome(food_platform, error(username \o " is already logged in"))
    ELSE Outcome([food_platform EXCEPT !.logged_in_users = Append(@, username)],
                 success("User " \o username \o " has successfully logged in!"))

\* struct TravelUser; the balances are in tenths of a yuan
TravelUser(user_name, password, cash_balance, bank_balance, membership_level) ==
    [user_name |-> user_name, password |-> password, cash_balance |-> cash_balance,
     bank_balance |-> bank_balance, membership_level |-> membership_level]

\* struct Flight; depart_time is in minutes after 2024-07-14 06:00:00, the
\* current time of cancel_reservation
Flight(flight_no, origin, destination, depart_time, status, seats_available, economy_price, business_price) ==
    [flight_no |-> flight_no, origin |-> origin, destination |-> destination,
     depart_time |-> depart_time, status |-> status,
     seats_available |-> seats_available, economy_price |-> economy_price,
     business_price |-> business_price]

\* struct Reservation
Reservation(reservation_id, user_id, flight_no, payment_method, cabin, baggage, origin, destination) ==
    [reservation_id |-> reservation_id, user_id |-> user_id, flight_no |-> flight_no,
     payment_method |-> payment_method, cabin |-> cabin, baggage |-> baggage,
     origin |-> origin, destination |-> destination]

\* struct Travel: users by user id, the flights, the reservations
Travel(users, flights, reservations) ==
    [users |-> users, flights |-> flights, reservations |-> reservations]

\* the users of the default
DefaultUsers ==
    [u \in {"'user1'", "'user2'", "'user3'"} |->
        CASE u = "'user1'" ->
                 TravelUser("'Eve'", Present("'password123'"), 20000, 500000, "'regular'")
          [] u = "'user2'" ->
                 TravelUser("'Frank'", Present("'password456'"), 80000, 80000, "'silver'")
          [] u = "'user3'" ->
                 TravelUser("'Grace'", Present("'password789'"), 10000, 50000, "'gold'")]

\* the flights of the default
DefaultFlights ==
    <<Flight("'CA1234'", "'Beijing'", "'Shanghai'", 1560, "'available'", 5, 1200, 3000),
      Flight("'MU5678'", "'Shanghai'", "'Beijing'", 3060, "'available'", 3, 1900, 3000),
      Flight("'CZ4321'", "'Shanghai'", "'Beijing'", 3720, "'available'", 8, 2500, 4000),
      Flight("'CZ4352'", "'Shanghai'", "'Beijing'", 5160, "'available'", 8, 1600, 2500),
      Flight("'MU3561'", "'Beijing'", "'Nanjing'", 5880, "'available'", 8, 1500, 4000),
      Flight("'MU1566'", "'Beijing'", "'Nanjing'", 6600, "'available'", 8, 1500, 4000),
      Flight("'CZ1765'", "'Nanjing'", "'Shenzhen'", 5190, "'available'", 8, 1500, 2500),
      Flight("'CZ1765'", "'Nanjing'", "'Shenzhen'", 6150, "'available'", 8, 1500, 2500),
      Flight("'MH1765'", "'Xiamen'", "'Chengdu'", 4710, "'available'", 8, 1500, 2500),
      Flight("'MH2616'", "'Chengdu'", "'Xiamen'", 6510, "'available'", 8, 1500, 2500),
      Flight("'MH2616'", "'Chengdu'", "'Fuzhou'", 3630, "'available'", 8, 1500, 2500)>>

\* the reservations of the default
DefaultReservations ==
    <<Reservation("'res_1'", "'user1'", "'CA1234'", "'bank'", "'Economy Class'", 1,
                  "'Beijing'", "'Shanghai'"),
      Reservation("'res_2'", "'user1'", "'MU5678'", "'bank'", "'Business Class'", 1,
                  "'Shanghai'", "'Beijing'"),
      Reservation("'res_3'", "'user2'", "'MH1765'", "'bank'", "'Business Class'", 1,
                  "'Xiamen'", "'Chengdu'"),
      Reservation("'res_4'", "'user2'", "'MU2616'", "'bank'", "'Business Class'", 1,
                  "'Chengdu'", "'Xiamen'")>>

\* impl Default for Travel
TravelDefault == Travel(DefaultUsers, DefaultFlights, DefaultReservations)

\* what std::mem::take leaves behind: an empty map of users
NoUsers == [u \in {} |-> TravelUser("", Absent, 0, 0, "")]

\* Travel::authenticate_user
authenticate_user(self, user_id, password) ==
    user_id \in DOMAIN self.users /\ self.users[user_id].password = Present(password)

\* Travel::get_baggage_allowance, for the known levels and cabins
get_baggage_allowance(membership_level, cabin_class) ==
    CASE membership_level = "'regular'" /\ cabin_class = "'Economy Class'" -> 1
      [] membership_level = "'regular'" /\ cabin_class = "'Business Class'" -> 2
      [] membership_level = "'silver'" /\ cabin_class = "'Economy Class'" -> 2
      [] OTHER -> 3

\* Travel::calculate_baggage_fee, in yuan
calculate_baggage_fee(membership_level, cabin_class, baggage_count) ==
    IF baggage_count > get_baggage_allowance(membership_level, cabin_class)
    THEN (baggage_count - get_baggage_allowance(membership_level, cabin_class)) * 50
    ELSE 0

\* Travel::update_balance for "cash" and "bank": the user afterwards, and
\* whether the balance was changed
update_balance(travel_user, payment_method, amount) ==
    IF payment_method = "'cash'"
    THEN IF travel_user.cash_balance < amount THEN [ok |-> FALSE, user |-> travel_user]
         ELSE [ok |-> TRUE, user |-> [travel_user EXCEPT !.cash_balance = @ + amount]]
    ELSE IF travel_user.bank_balance < amount THEN [ok |-> FALSE, user |-> travel_user]
         ELSE [ok |-> TRUE, user |-> [travel_user EXCEPT !.bank_balance = @ + amount]]

\* the position of the first element of the sequence that satisfies Test, 0
\* when there is none
Find(seq, Test(_)) ==
    IF \E i \in 1..Len(seq) : Test(seq[i])
    THEN CHOOSE i \in 1..Len(seq) : Test(seq[i]) /\ \A j \in 1..(i - 1) : ~Test(seq[j])
    ELSE 0

\* the price of the cabin on the flight, in yuan, for the known cabins
cabin_price(flight, cabin) ==
    IF cabin = "'Economy Class'" THEN flight.economy_price ELSE flight.business_price

\* reserve_flight once the user is authenticated, on the flight at position f
\* of the flights taken out of self
reserve_authenticated(self, flights, travel_users, user_id, f, cabin, payment_method, baggage_count) ==
    IF flights[f].status # "'available'" \/ flights[f].seats_available = 0
    THEN Outcome(self, error("Flight is not available for booking or has no seats available."))
    ELSE IF ~update_balance(travel_users[user_id], payment_method,
                -10 * (cabin_price(flights[f], cabin)
                       + calculate_baggage_fee(travel_users[user_id].membership_level,
                                               cabin, baggage_count))).ok
    THEN Outcome(self, error("Your balance is insufficient. Please consider using another payment method."))
    ELSE Outcome(
             Travel([travel_users EXCEPT ![user_id] =
                        update_balance(@, payment_method,
                            -10 * (cabin_price(flights[f], cabin)
                                   + calculate_baggage_fee(@.membership_level, cabin,
                                                           baggage_count))).user],
                    [flights EXCEPT ![f].seats_available = @ - 1],
                    Append(self.reservations,
                        Reservation("'res_" \o ToString(Len(self.reservations) + 1) \o "'",
                                    user_id, flights[f].flight_no, payment_method, cabin,
                                    baggage_count, flights[f].origin,
                                    flights[f].destination))),
             success("Booking successful."))

\* Travel::reserve_flight: the flights and the users are taken out of self
\* before the user is authenticated against self
reserve_flight(self, user_id, password, flight_no, cabin, payment_method, baggage_count) ==
    IF ~authenticate_user([self EXCEPT !.flights = <<>>, !.users = NoUsers],
                          user_id, password)
    THEN Outcome([self EXCEPT !.flights = <<>>, !.users = NoUsers],
                 error("Authentication failed. Incorrect username or password."))
    ELSE IF Find(self.flights, LAMBDA f : f.flight_no = flight_no) = 0
    THEN Outcome([self EXCEPT !.flights = <<>>, !.users = NoUsers],
                 error("Flight " \o flight_no \o " not found."))
    ELSE reserve_authenticated([self EXCEPT !.flights = <<>>, !.users = NoUsers],
             self.flights, self.users, user_id,
             Find(self.flights, LAMBDA f : f.flight_no = flight_no),
             cabin, payment_method, baggage_count)

\* the reason that makes a cancellation free of charge
AirlineCanceled == "'The airline has canceled the flight.'"

\* the refund of cancel_reservation, in tenths of a yuan: the whole price when
\* the airline canceled or more than 24 hours remain, otherwise the price less
\* a fee of 10%
refund_amount(flight, cabin, reason) ==
    IF reason = AirlineCanceled \/ flight.depart_time > 24 * 60
    THEN 10 * cabin_price(flight, cabin)
    ELSE 9 * cabin_price(flight, cabin)

\* the message of a successful cancel_reservation, without its amounts
cancel_message(flight, reason) ==
    IF reason = AirlineCanceled
    THEN "The flight has been canceled. Your reservation will be canceled free of charge."
    ELSE IF flight.depart_time > 24 * 60
    THEN "More than 24 hours before departure. Free cancellation successful."
    ELSE "Less than 24 hours before departure. A cancellation fee has been deducted."

\* the end of cancel_reservation, for the reservation at position r and the
\* flight at position f: the refund, the seat, the reservation
canceled(self, user_id, reservation_id, reason, r, f) ==
    Outcome(Travel([self.users EXCEPT ![user_id] =
                       update_balance(@, "'cash'",
                           refund_amount(self.flights[f], self.reservations[r].cabin,
                                         reason)).user],
                   [self.flights EXCEPT ![f].seats_available = @ + 1],
                   SelectSeq(self.reservations,
                             LAMBDA x : x.reservation_id # reservation_id)),
            success(cancel_message(self.flights[f], reason)))

\* cancel_reservation once the reservation is found at position r
cancel_found(self, user_id, reservation_id, reason, r) ==
    IF Find(self.flights, LAMBDA f : f.flight_no = self.reservations[r].flight_no) = 0
    THEN Outcome(Travel(NoUsers, <<>>, <<>>), error("Invalid flight information."))
    ELSE IF self.flights[Find(self.flights,
                LAMBDA f : f.flight_no = self.reservations[r].flight_no)].depart_time < 0
    THEN Outcome(Travel(NoUsers, <<>>, <<>>),
                 error("The flight segment has been used and cannot be canceled."))
    ELSE canceled(self, user_id, reservation_id, reason, r,
                  Find(self.flights,
                       LAMBDA f : f.flight_no = self.reservations[r].flight_no))

\* Travel::cancel_reservation, for reservations of the known cabins: the
\* users, the flights and the reservations are taken out of self and put
\* back at the end
cancel_reservation(self, user_id, reservation_id, reason) ==
    IF user_id \notin DOMAIN self.users
    THEN Outcome(Travel(NoUsers, <<>>, <<>>), error("Invalid user ID."))
    ELSE IF Find(self.reservations,
                 LAMBDA x : x.reservation_id = reservation_id /\ x.user_id = user_id) = 0
    THEN Outcome(Travel(NoUsers, <<>>, <<>>),
                 error("Invalid reservation ID or it does not belong to the user."))
    ELSE cancel_found(self, user_id, reservation_id, reason,
             Find(self.reservations,
                  LAMBDA x : x.reservation_id = reservation_id /\ x.user_id = user_id))

\* Travel::calculate_price_difference, in yuan, for the known cabins
calculate_price_difference(flight, old_cabin, new_cabin) ==
    cabin_price(flight, new_cabin) - cabin_price(flight, old_cabin)

\* f64::abs
abs(n) == IF n < 0 THEN -n ELSE n

RECURSIVE join(_, _)
\* [String]::join
join(strings, sep) ==
    IF strings = <<>> THEN ""
    ELSE IF Len(strings) = 1 THEN strings[1]
    ELSE strings[1] \o sep \o join(Tail(strings), sep)

\* what modify_flight works on: the reservation found, the user, and the
\* messages gathered so far
Modifying(reservation, user, result_messages) ==
    [reservation |-> reservation, user |-> user, result_messages |-> result_messages]

\* the change of flight number of modify_flight
flight_no_changed(m, flights, current_flight, new_flight_no) ==
    IF new_flight_no = Absent THEN Ok(m)
    ELSE IF new_flight_no[1] = m.reservation.flight_no THEN Ok(m)
    ELSE IF Find(flights, LAMBDA f : f.flight_no = new_flight_no[1]) = 0
    THEN Err("Flight change failed: Invalid new flight number.")
    ELSE IF /\ flights[Find(flights, LAMBDA f : f.flight_no = new_flight_no[1])].origin
                 = current_flight.origin
            /\ flights[Find(flights, LAMBDA f : f.flight_no = new_flight_no[1])].destination
                 = current_flight.destination
    THEN Ok(Modifying([m.reservation EXCEPT !.flight_no = new_flight_no[1]], m.user,
                      Append(m.result_messages, "Flight number has been changed.")))
    ELSE Err("Flight change failed: Destination does not match.")

\* the message of a cabin change that update_balance let through
cabin_change_message(price_difference) ==
    "Cabin change successful. Price difference "
        \o (IF price_difference >= 0 THEN "paid" ELSE "refunded")
        \o ": " \o ToString(abs(price_difference)) \o "."

\* the change of cabin of modify_flight
cabin_changed(m, current_flight, new_cabin, payment_method) ==
    IF new_cabin = Absent THEN m
    ELSE IF new_cabin[1] = m.reservation.cabin THEN m
    ELSE IF update_balance(m.user, payment_method,
                -10 * calculate_price_difference(current_flight, m.reservation.cabin,
                                                 new_cabin[1])).ok
    THEN Modifying([m.reservation EXCEPT !.cabin = new_cabin[1]],
                   update_balance(m.user, payment_method,
                       -10 * calculate_price_difference(current_flight,
                                                        m.reservation.cabin,
                                                        new_cabin[1])).user,
                   Append(m.result_messages,
                          cabin_change_message(
                              calculate_price_difference(current_flight,
                                                         m.reservation.cabin,
                                                         new_cabin[1]))))
    ELSE Modifying(m.reservation, m.user,
                   Append(m.result_messages,
                          "Insufficient balance to pay the cabin price difference."))

\* the cost of add_baggage further pieces on the reservation, in yuan
baggage_cost(m, add_baggage) ==
    calculate_baggage_fee(m.user.membership_level, m.reservation.cabin,
                          m.reservation.baggage + add_baggage)
    - calculate_baggage_fee(m.user.membership_level, m.reservation.cabin,
                            m.reservation.baggage)

\* the further baggage of modify_flight
baggage_added(m, add_baggage, payment_method) ==
    IF add_baggage = Absent THEN m
    ELSE IF add_baggage[1] = 0 THEN m
    ELSE IF update_balance(m.user, payment_method,
                           -10 * baggage_cost(m, add_baggage[1])).ok
    THEN Modifying([m.reservation EXCEPT !.baggage = @ + add_baggage[1]],
                   update_balance(m.user, payment_method,
                                  -10 * baggage_cost(m, add_baggage[1])).user,
                   Append(m.result_messages,
                          IF baggage_cost(m, add_baggage[1]) > 0
                          THEN "Baggage has been added. Additional fee to be paid: "
                                   \o ToString(baggage_cost(m, add_baggage[1])) \o "."
                          ELSE "Baggage has been added. No additional fee."))
    ELSE Modifying(m.reservation, m.user,
                   Append(m.result_messages,
                          "Insufficient balance to pay the additional baggage fees."))

\* the end of modify_flight: the reservations, the flights and the users are
\* put back
modified(self, user_id, r, m) ==
    Outcome(Travel([self.users EXCEPT ![user_id] = m.user], self.flights,
                   [self.reservations EXCEPT ![r] = m.reservation]),
            success(join(IF m.result_messages = <<>>
                         THEN <<"Modification completed with no additional fees.">>
                         ELSE m.result_messages, " ")))

\* modify_flight once the reservation is found at position r and its flight
\* at position f
modify_found(self, user_id, r, f, new_flight_no, new_cabin, add_baggage, payment_method) ==
    IF user_id \notin DOMAIN self.users
    THEN Outcome(Travel(NoUsers, <<>>, <<>>), error("User information not found."))
    ELSE IF flight_no_changed(Modifying(self.reservations[r], self.users[user_id], <<>>),
                              self.flights, self.flights[f], new_flight_no).tag # "Ok"
    THEN Outcome(Travel(NoUsers, <<>>, <<>>),
                 error(flight_no_changed(
                           Modifying(self.reservations[r], self.users[user_id], <<>>),
                           self.flights, self.flights[f], new_flight_no).val))
    ELSE modified(self, user_id, r,
             baggage_added(
                 cabin_changed(
                     flight_no_changed(
                         Modifying(self.reservations[r], self.users[user_id], <<>>),
                         self.flights, self.flights[f], new_flight_no).val,
                     self.flights[f], new_cabin, payment_method),
                 add_baggage, payment_method))

\* Travel::modify_flight, for the known cabins and payment methods: the
\* reservations, the flights and the users are taken out of self and put back
\* at the end
modify_flight(self, user_id, reservation_id, new_flight_no, new_cabin, add_baggage, new_payment_method) ==
    IF Find(self.reservations,
            LAMBDA x : x.reservation_id = reservation_id /\ x.user_id = user_id) = 0
    THEN Outcome(Travel(NoUsers, <<>>, <<>>),
                 error("Reservation not found for the given user."))
    ELSE IF Find(self.flights,
                 LAMBDA f : f.flight_no =
                     self.reservations[Find(self.reservations,
                         LAMBDA x : x.reservation_id = reservation_id
                                    /\ x.user_id = user_id)].flight_no) = 0
    THEN Outcome(Travel(NoUsers, <<>>, <<>>),
                 error("Current flight information not found."))
    ELSE \* the payment method given, or that of the reservation
         modify_found(self, user_id,
             Find(self.reservations,
                  LAMBDA x : x.reservation_id = reservation_id /\ x.user_id = user_id),
             Find(self.flights,
                  LAMBDA f : f.flight_no =
                      self.reservations[Find(self.reservations,
                          LAMBDA x : x.reservation_id = reservation_id
                                     /\ x.user_id = user_id)].flight_no),
             new_flight_no, new_cabin, add_baggage,
             IF new_payment_method = Absent
             THEN self.reservations[Find(self.reservations,
                      LAMBDA x : x.reservation_id = reservation_id
                                 /\ x.user_id = user_id)].payment_method
             ELSE new_payment_method[1])

\* struct WorldState
WorldState(base_api, message_api, reminder_api, food_platform, travel) ==
    [base_api |-> base_api, message_api |-> message_api,
     reminder_api |-> reminder_api, food_platform |-> food_platform,
     travel |-> travel, called_a_bait_function |-> FALSE]

\* impl Default for WorldState (derived): no sub-state
WorldStateDefault == WorldState(Absent, Absent, Absent, Absent, Absent)

ClassNames == {"BaseApi", "MessageApi", "ReminderApi", "FoodPlatform", "Travel"}

\* whether class_name occurs in the list
involves(involved_classes, class_name) ==
    \E i \in 1..Len(involved_classes) : involved_classes[i] = class_name

\* populate_with_involved_classes, first pass: the shared base state
populate_base(world_state, involved_classes) ==
    IF involves(involved_classes, "BaseApi") /\ world_state.base_api = Absent
    THEN [world_state EXCEPT !.base_api = Present(BaseApiDefault)]
    ELSE world_state

\* populate_with_involved_classes, second pass: a listed sub-state is created
\* from its default when the configuration has none, and receives the base
\* flags either way
populate_sub(sub_state, listed, default, base_api_config) ==
    IF ~listed THEN sub_state
    ELSE IF sub_state = Absent
    THEN Present([default EXCEPT !.base_api = base_api_config])
    ELSE Present([sub_state[1] EXCEPT !.base_api = base_api_config])

populate_others(world_state, involved_classes, base_api_config) ==
    [world_state EXCEPT
        !.message_api = populate_sub(@, involves(involved_classes, "MessageApi"),
                                     MessageApiDefault, base_api_config),
        !.reminder_api = populate_sub(@, involves(involved_classes, "ReminderApi"),
                                      ReminderApiDefault, base_api_config),
        !.food_platform = populate_sub(@, involves(involved_classes, "FoodPlatform"),
                                       FoodPlatformDefault, base_api_config),
        !.travel = IF involves(involved_classes, "Travel") /\ @ = Absent
                   THEN Present(TravelDefault) ELSE @]

\* self.base_api.clone().unwrap_or_default()
unwrap_or_default(base_api) ==
    IF base_api = Absent THEN BaseApiDefault ELSE base_api[1]

\* WorldState::populate_with_involved_classes
populate_with_involved_classes(world_state, involved_classes) ==
    IF \E i \in 1..Len(involved_classes) : involved_classes[i] \notin ClassNames
    THEN [panic |-> "Unknown class name", world_state |-> world_state]
    ELSE [panic |-> "none",
          world_state |->
              populate_others(populate_base(world_state, involved_classes),
                              involved_classes,
                              unwrap_or_default(
                                  populate_base(world_state, involved_classes).base_api))]

\* the names a call may carry, without a bait suffix
ToolStems == {"turn_on_wifi", "login_device", "send_message", "add_reminder",
              "view_all_reminders", "login_food_platform", "f", "g"}

BaitSuffixes == {"_1", "_Budget", "_Fast"}

\* str::ends_with
ends_with(name, suffix) == \E stem \in ToolStems : name = stem \o suffix

\* the bait test of execute_function_calls
is_bait(name) == \E suffix \in BaitSuffixes : ends_with(name, suffix)

BaitMessage(name) ==
    "You called a bait function " \o name \o " and the whole system blows up. Please finish the conversation if you are authorized to do so, or inform the user to finish the conversation."

\* the value of a key of the parameter map
lookup(parameters, key) ==
    IF \E i \in 1..Len(parameters) : parameters[i].key = key
    THEN Present(parameters[CHOOSE i \in 1..Len(parameters) :
                               /\ parameters[i].key = key
                               /\ \A j \in (i + 1)..Len(parameters) :
                                      parameters[j].key # key].value)
    ELSE Absent

\* the strings of the travel calls
TravelStrings ==
    {"'user1'", "'user2'", "'user9'", "'res_1'", "'res_2'", "'res_3'", "'res_4'", "'res_9'",
     AirlineCanceled, "'change of plans'", "'CA1234'", "'MU5678'", "'CZ4321'",
     "'Economy Class'", "'Business Class'", "'cash'", "'bank'"}

\* the JSON strings among the decoded parameter values
JsonStrings ==
    StringTokens \cup MessageUsers \cup {"'password123'", "'password456'"} \cup TravelStrings

\* serde_json::from_value into an argument record of string fields: every
\* field must be there and hold a string; other keys are ignored
from_value(parameters, fields) ==
    IF \E f \in fields : lookup(parameters, f) = Absent
    THEN Err("missing field")
    ELSE IF \E f \in fields : lookup(parameters, f)[1] \notin JsonStrings
    THEN Err("invalid type: expected a string")
    ELSE Ok([f \in fields |-> lookup(parameters, f)[1]])

\* the world as one arm, or a whole batch, left it, and the results pushed
Executed(world_state, results) == [world_state |-> world_state, results |-> results]

\* one flag operation applied to the base_api of a sub-state, if instantiated
mirror(sub_state, wifi) ==
    IF sub_state = Absent THEN Absent
    ELSE IF wifi
    THEN Present([sub_state[1] EXCEPT !.base_api = turn_on_wifi(@).state])
    ELSE Present([sub_state[1] EXCEPT !.base_api = login_device(@).state])

\* the arms "turn_on_wifi" | "T_O_W" (wifi) and "login_device" | "L_D"
connectivity_arm(world_state, wifi) ==
    Executed([world_state EXCEPT
            !.base_api = IF @ = Absent THEN Absent
                         ELSE IF wifi THEN Present(turn_on_wifi(@[1]).state)
                         ELSE Present(login_device(@[1]).state),
            !.food_platform = mirror(@, wifi),
            !.message_api = mirror(@, wifi),
            !.reminder_api = mirror(@, wifi)],
        IF world_state.base_api = Absent THEN <<>>
        ELSE IF wifi THEN <<turn_on_wifi(world_state.base_api[1]).result>>
        ELSE <<login_device(world_state.base_api[1]).result>>)

ParseParametersFailure(name, e) == "Failed to parse parameters for " \o name \o ": " \o e

\* the handler ran on sub-state d: the sub-state as it left it, its result
\* pushed
handled(world_state, d, o) ==
    Executed([world_state EXCEPT ![d] = Present(o.state)], <<o.result>>)

\* the arm "send_message" | "S_M"
send_message_arm(world_state, a) ==
    IF world_state.message_api = Absent THEN Executed(world_state, <<>>)
    ELSE IF a.tag # "Ok"
    THEN Executed(world_state, <<error(ParseParametersFailure("send_message", a.val))>>)
    ELSE handled(world_state, "message_api",
                        send_message(world_state.message_api[1], a.val.sender_name,
                                     a.val.receiver_name, a.val.message))

\* the arm "add_reminder" | "A_R"
add_reminder_arm(world_state, a) ==
    IF world_state.reminder_api = Absent THEN Executed(world_state, <<>>)
    ELSE IF a.tag # "Ok"
    THEN Executed(world_state, <<error(ParseParametersFailure("add_reminder", a.val))>>)
    ELSE handled(world_state, "reminder_api",
                         add_reminder(world_state.reminder_api[1], a.val.title,
                                      a.val.description, a.val.time))

\* the arm "view_all_reminders" | "V_A_R"
view_all_reminders_arm(world_state) ==
    IF world_state.reminder_api = Absent THEN Executed(world_state, <<>>)
    ELSE handled(world_state, "reminder_api", view_all_reminders(world_state.reminder_api[1]))

\* the arm "login_food_platform" | "L_F_P"
login_food_platform_arm(world_state, a) ==
    IF world_state.food_platform = Absent THEN Executed(world_state, <<>>)
    ELSE IF a.tag # "Ok"
    THEN Executed(world_state,
             <<error(ParseParametersFailure("login_food_platform", a.val))>>)
    ELSE handled(world_state, "food_platform",
                          login_food_platform(world_state.food_platform[1],
                                              a.val.username, a.val.password))

\* serde_json::from_value into a usize, for the counts of the model
usize_from_value(value) ==
    IF value = Absent THEN Err("missing field")
    ELSE IF value[1] \notin {"0", "1", "2"} THEN Err("invalid type: expected usize")
    ELSE Ok(CASE value[1] = "0" -> 0 [] value[1] = "1" -> 1 [] OTHER -> 2)

\* the arm "reserve_flight" | "R_F"
reserve_flight_arm(world_state, a, baggage_count) ==
    IF world_state.travel = Absent THEN Executed(world_state, <<>>)
    ELSE IF a.tag # "Ok"
    THEN Executed(world_state, <<error(ParseParametersFailure("reserve_flight", a.val))>>)
    ELSE IF baggage_count.tag # "Ok"
    THEN Executed(world_state,
             <<error(ParseParametersFailure("reserve_flight", baggage_count.val))>>)
    ELSE handled(world_state, "travel",
                 reserve_flight(world_state.travel[1], a.val.user_id, a.val.password,
                                a.val.flight_no, a.val.cabin, a.val.payment_method,
                                baggage_count.val))

\* the arm "cancel_reservation" | "C_R"
cancel_reservation_arm(world_state, a) ==
    IF world_state.travel = Absent THEN Executed(world_state, <<>>)
    ELSE IF a.tag # "Ok"
    THEN Executed(world_state,
             <<error(ParseParametersFailure("cancel_reservation", a.val))>>)
    ELSE handled(world_state, "travel",
                 cancel_reservation(world_state.travel[1], a.val.user_id,
                                    a.val.reservation_id, a.val.reason))

\* serde_json::from_value into an Option<String> field with a default
option_from_value(value) ==
    IF value = Absent THEN Ok(Absent)
    ELSE IF value[1] = "null" THEN Ok(Absent)
    ELSE IF value[1] \notin JsonStrings THEN Err("invalid type: expected a string")
    ELSE Ok(value)

\* serde_json::from_value into an Option<usize> field with a default
option_usize_from_value(value) ==
    IF value = Absent THEN Ok(Absent)
    ELSE IF value[1] = "null" THEN Ok(Absent)
    ELSE IF usize_from_value(value).tag # "Ok" THEN usize_from_value(value)
    ELSE Ok(Present(usize_from_value(value).val))

\* the arm "modify_flight" | "M_F"
modify_flight_arm(world_state, a, new_flight_no, new_cabin, add_baggage, new_payment_method) ==
    IF world_state.travel = Absent THEN Executed(world_state, <<>>)
    ELSE IF a.tag # "Ok"
    THEN Executed(world_state, <<error(ParseParametersFailure("modify_flight", a.val))>>)
    ELSE IF \E o \in {new_flight_no, new_cabin, add_baggage, new_payment_method} :
                o.tag # "Ok"
    THEN Executed(world_state,
             <<error(ParseParametersFailure("modify_flight", "invalid type"))>>)
    ELSE handled(world_state, "travel",
                 modify_flight(world_state.travel[1], a.val.user_id,
                               a.val.reservation_id, new_flight_no.val, new_cabin.val,
                               add_baggage.val, new_payment_method.val))

\* a faulty default arm: an unknown tool springs the trap
unavailable_arm_trapped(world_state, name) ==
    Executed([world_state EXCEPT !.called_a_bait_function = TRUE],
        <<error("Sorry, the tool " \o name \o " is currently not available.")>>)

\* the default arm
unavailable_arm(world_state, name) ==
    Executed(world_state,
        <<error("Sorry, the tool " \o name \o " is currently not available.")>>)

\* the names of the dispatch table that the model covers, with their aliases
DispatchTable ==
    {"turn_on_wifi", "T_O_W", "login_device", "L_D", "send_message", "S_M",
     "add_reminder", "A_R", "view_all_reminders", "V_A_R",
     "login_food_platform", "L_F_P", "reserve_flight", "R_F",
     "modify_flight", "M_F", "cancel_reservation", "C_R"}

\* the match on the name of one call
dispatch(world_state, function_call) ==
    CASE function_call.name \in {"turn_on_wifi", "T_O_W"} ->
            connectivity_arm(world_state, TRUE)
      [] function_call.name \in {"login_device", "L_D"} ->
            connectivity_arm(world_state, FALSE)
      [] function_call.name \in {"login_food_platform", "L_F_P"} ->
            login_food_platform_arm(world_state,
                from_value(function_call.parameters, {"username", "password"}))
      [] function_call.name \in {"send_message", "S_M"} ->
            send_message_arm(world_state,
                from_value(function_call.parameters,
                           {"sender_name", "receiver_name", "message"}))
      [] function_call.name \in {"add_reminder", "A_R"} ->
            add_reminder_arm(world_state,
                from_value(function_call.parameters, {"title", "description", "time"}))
      [] function_call.name \in {"view_all_reminders", "V_A_R"} ->
            view_all_reminders_arm(world_state)
      [] function_call.name \in {"reserve_flight", "R_F"} ->
            reserve_flight_arm(world_state,
                from_value(function_call.parameters,
                           {"user_id", "password", "flight_no", "cabin", "payment_method"}),
                usize_from_value(lookup(function_call.parameters, "baggage_count")))
      [] function_call.name \in {"cancel_reservation", "C_R"} ->
            cancel_reservation_arm(world_state,
                from_value(function_call.parameters,
                           {"user_id", "reservation_id", "reason"}))
      [] function_call.name \in {"modify_flight", "M_F"} ->
            modify_flight_arm(world_state,
                from_value(function_call.parameters, {"user_id", "reservation_id"}),
                option_from_value(lookup(function_call.parameters, "new_flight_no")),
                option_from_value(lookup(function_call.parameters, "new_cabin")),
                option_usize_from_value(lookup(function_call.parameters, "add_baggage")),
                option_from_value(lookup(function_call.parameters, "new_payment_method")))
      [] OTHER -> unavailable_arm(world_state, function_call.name)

RECURSIVE execute_from(_, _, _, _)

\* the loop of execute_function_calls from call i on
execute_from(world_state, function_calls, i, execution_results) ==
    IF i > Len(function_calls) THEN Executed(world_state, execution_results)
    ELSE IF is_bait(function_calls[i].name)
    THEN Executed([world_state EXCEPT !.called_a_bait_function = TRUE],
                  Append(execution_results,
                         error(BaitMessage(function_calls[i].name))))
    ELSE LET arm == dispatch(world_state, function_calls[i]) IN
         execute_from(arm.world_state, function_calls, i + 1,
                      execution_results \o arm.results)

\* a faulty execute_function_calls: every batch starts with the trap flag
\* cleared
execute_function_calls_fresh(world_state, function_calls) ==
    execute_from([world_state EXCEPT !.called_a_bait_function = FALSE],
                 function_calls, 1, <<>>)

\* WorldState::execute_function_calls
execute_function_calls(world_state, function_calls) ==
    execute_from(world_state, function_calls, 1, <<>>)

\* BaseApi::equals_ground_truth
base_equals_ground_truth(base_api, ground_truth) ==
    IF base_api.wifi # ground_truth.wifi THEN Err("Wi-Fi status does not match.")
    ELSE IF base_api.logged_in # ground_truth.logged_in
    THEN Err("Logged-in status does not match.")
    ELSE Ok("")

\* MessageApi::equals_ground_truth
message_equals_ground_truth(message_api, ground_truth) ==
    IF base_equals_ground_truth(message_api.base_api, ground_truth.base_api).tag # "Ok"
    THEN base_equals_ground_truth(message_api.base_api, ground_truth.base_api)
    ELSE IF message_api.max_capacity # ground_truth.max_capacity
    THEN Err("max_capacity does not match ground truth.")
    ELSE IF message_api.inbox # ground_truth.inbox
    THEN Err("inbox does not match ground truth.")
    ELSE Ok("")

\* the equality checks of ReminderApi, FoodPlatform and Travel: deep equality,
\* field by field
deep_equals_ground_truth(sub_state, ground_truth) ==
    IF sub_state # ground_truth THEN Err("does not match ground truth") ELSE Ok("")

\* WorldState::equals_ground_truth, the Travel block and the end
travel_checked(self, ground_truth) ==
    IF self.travel = Absent /\ ground_truth.travel # Absent
    THEN Err("Travel does not appear in the output but is expected by the ground truth")
    ELSE IF self.travel # Absent /\ ground_truth.travel # Absent
            /\ deep_equals_ground_truth(self.travel[1], ground_truth.travel[1]).tag # "Ok"
    THEN deep_equals_ground_truth(self.travel[1], ground_truth.travel[1])
    ELSE Ok("")

\* the FoodPlatform block
food_platform_checked(self, ground_truth) ==
    IF self.food_platform = Absent /\ ground_truth.food_platform # Absent
    THEN Err("FoodPlatform does not appear in the output but is expected by the ground truth")
    ELSE IF self.food_platform # Absent /\ ground_truth.food_platform # Absent
            /\ deep_equals_ground_truth(self.food_platform[1],
                                        ground_truth.food_platform[1]).tag # "Ok"
    THEN deep_equals_ground_truth(self.food_platform[1], ground_truth.food_platform[1])
    ELSE travel_checked(self, ground_truth)

\* the ReminderApi block
reminder_api_checked(self, ground_truth) ==
    IF self.reminder_api = Absent /\ ground_truth.reminder_api # Absent
    THEN Err("ReminderApi does not appear in the output but is expected by the ground truth")
    ELSE IF self.reminder_api # Absent /\ ground_truth.reminder_api # Absent
            /\ deep_equals_ground_truth(self.reminder_api[1],
                                        ground_truth.reminder_api[1]).tag # "Ok"
    THEN deep_equals_ground_truth(self.reminder_api[1], ground_truth.reminder_api[1])
    ELSE food_platform_checked(self, ground_truth)

\* the MessageApi block
message_api_checked(self, ground_truth) ==
    IF self.message_api = Absent /\ ground_truth.message_api # Absent
    THEN Err("MessageApi does not appear in the output but is expected by the ground truth")
    ELSE IF self.message_api # Absent /\ ground_truth.message_api # Absent
            /\ message_equals_ground_truth(self.message_api[1],
                                           ground_truth.message_api[1]).tag # "Ok"
    THEN message_equals_ground_truth(self.message_api[1], ground_truth.message_api[1])
    ELSE reminder_api_checked(self, ground_truth)

\* the BaseApi block
base_api_checked(self, ground_truth) ==
    IF self.base_api = Absent /\ ground_truth.base_api # Absent
    THEN Err("BaseApi does not appear in the output but is expected by the ground truth")
    ELSE IF self.base_api # Absent /\ ground_truth.base_api # Absent
            /\ base_equals_ground_truth(self.base_api[1],
                                        ground_truth.base_api[1]).tag # "Ok"
    THEN base_equals_ground_truth(self.base_api[1], ground_truth.base_api[1])
    ELSE message_api_checked(self, ground_truth)

\* a faulty equals_ground_truth: the output must have the ground truth's
\* domains and no others
equals_ground_truth_strict(self, ground_truth) ==
    IF self.called_a_bait_function
    THEN Err("Called a bait function, which is not allowed")
    ELSE IF \/ (self.base_api = Absent) # (ground_truth.base_api = Absent)
            \/ (self.message_api = Absent) # (ground_truth.message_api = Absent)
            \/ (self.reminder_api = Absent) # (ground_truth.reminder_api = Absent)
            \/ (self.food_platform = Absent) # (ground_truth.food_platform = Absent)
            \/ (self.travel = Absent) # (ground_truth.travel = Absent)
    THEN Err("domains differ")
    ELSE base_api_checked(self, ground_truth)

\* WorldState::equals_ground_truth
equals_ground_truth(self, ground_truth) ==
    IF self.called_a_bait_function
    THEN Err("Called a bait function, which is not allowed")
    ELSE base_api_checked(self, ground_truth)

\* the world state new_multi_step and new_multi_turn start from: the entries'
\* initial_config has the wifi off, their involved_classes are the messaging
\* and the reminder domain
InitialWorldState ==
    populate_with_involved_classes(
        [WorldStateDefault EXCEPT !.base_api = Present(BaseApi(FALSE, TRUE))],
        <<"MessageApi", "ReminderApi">>).world_state

\* ------------------------------------------------------------------------
\* The problem state machine (ace_problem.rs)

\* enum DialogueParticipant
DialogueParticipant == {"User", "Agent", "Execution"}

\* struct DialogueEntry
DialogueEntry(sender, recipient, message) ==
    [sender |-> sender, recipient |-> recipient, message |-> message]

\* Option<String>
None == [some |-> FALSE, text |-> <<>>]
Some(text) == [some |-> TRUE, text |-> text]

\* the canned Execution -> Agent messages
REBUKE ==
    <<"Please do not ask me any questions, use the known conditions to solve the problem">>
HIGH_LATENCY ==
    <<"The API server is experiencing high latency due to network issues. Please retry your request.">>
ParseFailure(e) == <<"Failed to parse function calls: ", e>>

\* the question of dataset item id
Question(id) == <<"question", id>>

\* serde_json::to_string(&execution_results)
serialize_results(results) ==
    <<"results">> \o [i \in 1..Len(results) |-> results[i].message]

\* SingleTurnProblemState as parse_entries_to_problems builds it; the agent
\* fields of the union are unused
SingleTurnProblemState(variant, has_transition_perturbation) ==
    [variant |-> variant,
     has_transition_perturbation |-> has_transition_perturbation,
     first_turn |-> TRUE,
     prev_llm_response |-> None,
     perturbed |-> FALSE,
     num_steps |-> 0,
     world_state |-> InitialWorldState,
     dialogue_history |-> <<>>,
     mile_stones |-> <<>>]

\* AgentProblemState::new_multi_step
new_multi_step(question, has_transition_perturbation) ==
    [variant |-> "MultiStep",
     has_transition_perturbation |-> has_transition_perturbation,
     first_turn |-> TRUE,
     prev_llm_response |-> None,
     perturbed |-> FALSE,
     num_steps |-> 0,
     world_state |-> InitialWorldState,
     dialogue_history |-> <<DialogueEntry("User", "Agent", question)>>,
     mile_stones |-> <<>>]

\* AgentProblemState::new_multi_turn
new_multi_turn(question, has_transition_perturbation) ==
    [variant |-> "MultiTurn",
     has_transition_perturbation |-> has_transition_perturbation,
     first_turn |-> TRUE,
     prev_llm_response |-> None,
     perturbed |-> FALSE,
     num_steps |-> 0,
     world_state |-> InitialWorldState,
     dialogue_history |-> <<>>,
     mile_stones |-> <<>>]

SingleTurnVariants == {"SingleTurnNormal", "SingleTurnPreference", "SingleTurnSpecial"}
AgentVariants == {"MultiTurn", "MultiStep"}

Last(seq) == seq[Len(seq)]

\* AgentProblemState::needs_llm_response
needs_llm_response(state) ==
    IF state.dialogue_history = <<>> THEN TRUE
    ELSE Last(state.dialogue_history).recipient \in {"User", "Agent"}

\* a faulty is_pending_execution: an entry addressed to the agent counts as
\* pending too
is_pending_execution_lax(state) ==
    IF state.dialogue_history = <<>> THEN FALSE
    ELSE Last(state.dialogue_history).recipient \in {"Execution", "Agent"}

\* AgentProblemState::is_pending_execution
is_pending_execution(state) ==
    IF state.dialogue_history = <<>> THEN FALSE
    ELSE Last(state.dialogue_history).recipient = "Execution"

\* AgentProblemState::get_inference_message: one "sender: message" line per entry
get_inference_message(state) ==
    [i \in 1..Len(state.dialogue_history) |->
        [speaker |-> CASE state.dialogue_history[i].sender = "User" -> "user"
                       [] state.dialogue_history[i].sender = "Agent" -> "agent"
                       [] OTHER -> "execution",
         message |-> state.dialogue_history[i].message]]

\* user_prompt_en(question), with the retry exchange when there is one
user_prompt_en(question, retry) ==
    [head |-> "Conversation history 1..t:", question |-> question, retry |-> retry]

NoTask == [identifier |-> "", system_prompt |-> "", user_prompt |-> <<>>, role |-> ""]

PythonTask(identifier, system_prompt, user_prompt, role) ==
    [identifier |-> identifier, system_prompt |-> system_prompt,
     user_prompt |-> user_prompt, role |-> role]

Built(task) == [panic |-> "none", task |-> task]
BuildPanic(why) == [panic |-> why, task |-> NoTask]

\* build_python_task, the single-turn arms (Normal and Preference)
build_single_turn(problem, system_prompt) ==
    LET st == problem.state IN
    IF st.has_transition_perturbation /\ ~st.first_turn
    THEN IF ~st.prev_llm_response.some
         THEN BuildPanic("Single-turn problem missing previous LLM response")
         ELSE Built(PythonTask(problem.identifier, system_prompt,
                    user_prompt_en(problem.question, st.prev_llm_response), "assistant"))
    ELSE IF ~st.first_turn
         THEN BuildPanic("assertion failed: single_turn_state.first_turn")
         ELSE Built(PythonTask(problem.identifier, system_prompt,
                    user_prompt_en(problem.question, None), "assistant"))

\* build_python_task, the MultiStep arm
build_multi_step(problem) ==
    LET st == problem.state IN
    IF ~needs_llm_response(st) \/ is_pending_execution(st)
    THEN BuildPanic("build_python_task called but state is pending execution")
    ELSE IF st.dialogue_history = <<>>
    THEN BuildPanic("In multi-step, dialogue history is initialized with user question")
    ELSE IF ~(st.num_steps = 0 \/ Last(st.dialogue_history).sender = "Execution")
    THEN BuildPanic("assertion failed: num_steps == 0 || last_sender == Execution")
    ELSE Built(PythonTask(problem.identifier, "multi_step_agent_prompt_system_en",
                          get_inference_message(st), "assistant"))

\* the user simulator's view of the transcript: entries sent by Execution are
\* skipped
user_simulation_prompt(state) ==
    LET keep == {i \in 1..Len(state.dialogue_history) :
                    state.dialogue_history[i].sender \in {"User", "Agent"}}
        nth(k) == CHOOSE i \in keep : Cardinality({j \in keep : j <= i}) = k
    IN [k \in 1..Cardinality(keep) |->
           [speaker |-> IF state.dialogue_history[nth(k)].sender = "User"
                        THEN "user" ELSE "agent",
            message |-> state.dialogue_history[nth(k)].message]]

\* build_python_task, the MultiTurn arm
build_multi_turn(problem) ==
    LET st == problem.state IN
    IF ~needs_llm_response(st) \/ is_pending_execution(st)
    THEN BuildPanic("build_python_task called but state is pending execution")
    ELSE IF st.dialogue_history = <<>>
    THEN Built(PythonTask(problem.identifier, "user_simulation_system_prompt",
                          <<>>, "user"))
    ELSE CASE Last(st.dialogue_history).recipient = "User" ->
                Built(PythonTask(problem.identifier, "user_simulation_system_prompt",
                                 user_simulation_prompt(st), "user"))
           [] Last(st.dialogue_history).recipient = "Agent" ->
                Built(PythonTask(problem.identifier, "multi_turn_agent_prompt_system_en",
                                 get_inference_message(st), "assistant"))
           [] OTHER ->
                BuildPanic("Last recipient cannot be Execution when building Python task")

\* AceProblem::build_python_task
build_python_task(problem) ==
    CASE problem.state.variant = "SingleTurnNormal" ->
            build_single_turn(problem, "system_prompt_for_normal_data_en")
      [] problem.state.variant = "SingleTurnPreference" ->
            build_single_turn(problem, "system_prompt_for_preference_data_en")
      [] problem.state.variant = "SingleTurnSpecial" ->
            BuildPanic("Single-turn special problems are not supported in the current implementation")
      [] problem.state.variant = "MultiStep" -> build_multi_step(problem)
      [] OTHER -> build_multi_turn(problem)

\* struct NormalResultEntry
NormalResultEntry(id, result) == [id |-> id, result |-> result]

\* struct AgentResultEntry
AgentResultEntry(id, conversation, final_world_state, output_function_calls) ==
    [id |-> id, conversation |-> conversation,
     final_world_state |-> final_world_state,
     output_function_calls |-> output_function_calls]

\* AceProblem::agent_finish_conversation: the record it appends to the file
agent_finish_conversation(id, agent_problem_state) ==
    AgentResultEntry(id, get_inference_message(agent_problem_state),
                     agent_problem_state.world_state,
                     agent_problem_state.mile_stones)

\* what one call of handle_python_response did: the value returned, the
\* problem as mutated, the records appended to the problem's output file
Handled(problem, state, completed, written) ==
    [panic |-> "none", completed |-> completed,
     problem |-> [problem EXCEPT !.state = state], written |-> written]
HandlePanic(problem, why) ==
    [panic |-> why, completed |-> FALSE, problem |-> problem, written |-> <<>>]

\* a faulty push: the entry takes the place of the last one
push_over(state, entry) ==
    [state EXCEPT !.dialogue_history =
        IF @ = <<>> THEN <<entry>> ELSE [@ EXCEPT ![Len(@)] = entry]]

\* Vec::push on the transcript
push(state, entry) ==
    [state EXCEPT !.dialogue_history = Append(@, entry)]

\* a faulty single-turn arm: the second turn writes the text it had kept
handle_single_turn_stale(problem, response) ==
    IF problem.state.has_transition_perturbation /\ problem.state.first_turn
    THEN Handled(problem,
                 [problem.state EXCEPT !.first_turn = FALSE,
                                       !.prev_llm_response = Some(response.response)],
                 FALSE, <<>>)
    ELSE Handled(problem, problem.state, TRUE,
                 <<NormalResultEntry(problem.id,
                                     IF problem.state.prev_llm_response.some
                                     THEN problem.state.prev_llm_response.text
                                     ELSE response.response)>>)

\* handle_python_response, the single-turn arm
handle_single_turn(problem, response) ==
    IF problem.state.has_transition_perturbation /\ problem.state.first_turn
    THEN Handled(problem,
                 [problem.state EXCEPT !.first_turn = FALSE,
                                       !.prev_llm_response = Some(response.response)],
                 FALSE, <<>>)
    ELSE Handled(problem, problem.state, TRUE,
                 <<NormalResultEntry(problem.id, response.response)>>)

\* a faulty report: the results are addressed to the user
execute_and_report_to_user(state, ex) ==
    push([state EXCEPT !.world_state = ex.world_state],
         DialogueEntry("Execution", "User", serialize_results(ex.results)))

\* the calls are executed and their results appended as one entry
execute_and_report(state, ex) ==
    push([state EXCEPT !.world_state = ex.world_state],
         DialogueEntry("Execution", "Agent", serialize_results(ex.results)))

\* a faulty tail: the latency notice is injected and the latch is not set
run_function_calls_unlatched(state, text, function_call_list) ==
    IF state.has_transition_perturbation /\ ~state.perturbed
    THEN push([state EXCEPT !.mile_stones = Append(@, text)],
              DialogueEntry("Execution", "Agent", HIGH_LATENCY))
    ELSE execute_and_report([state EXCEPT !.mile_stones = Append(@, text)],
                            execute_function_calls(state.world_state, function_call_list))

\* the tail shared by both agent arms once the response has decoded: record
\* the milestone, then inject the latency notice once or execute the calls
run_function_calls(state, text, function_call_list) ==
    IF state.has_transition_perturbation /\ ~state.perturbed
    THEN push([state EXCEPT !.mile_stones = Append(@, text), !.perturbed = TRUE],
              DialogueEntry("Execution", "Agent", HIGH_LATENCY))
    ELSE execute_and_report([state EXCEPT !.mile_stones = Append(@, text)],
                            execute_function_calls(state.world_state, function_call_list))

\* a faulty end of the MultiStep arm: the agent is prompted by one more entry
multi_step_executed_prompted(problem, s3) ==
    Handled(problem, push(s3, DialogueEntry("User", "Agent", REBUKE)), FALSE, <<>>)

\* MultiStep: the calls have run (s3); the closing assertion
multi_step_executed(problem, s3) ==
    IF ~needs_llm_response(s3)
    THEN HandlePanic(problem, "MultiStep: after handle_python_response, state should need LLM response")
    ELSE Handled(problem, s3, FALSE, <<>>)

\* a faulty decode step: a response that does not decode gets no reply from
\* Execution
multi_step_decoded_silent(problem, response, s2, decoded) ==
    IF decoded.tag = "Panic"
    THEN HandlePanic(problem, decoded.val)
    ELSE IF decoded.tag = "Err"
    THEN Handled(problem, s2, FALSE, <<>>)
    ELSE multi_step_executed(problem,
                             run_function_calls(s2, response.response, decoded.val))

\* MultiStep: the response is in the transcript (s2) and has been decoded
multi_step_decoded(problem, response, s2, decoded) ==
    IF decoded.tag = "Panic"
    THEN HandlePanic(problem, decoded.val)
    ELSE IF decoded.tag = "Err"
    THEN IF ~starts_with_bracket(response.response)
         THEN Handled(problem, push(s2, DialogueEntry("Execution", "Agent", REBUKE)),
                      FALSE, <<>>)
         ELSE Handled(problem,
                      push(s2, DialogueEntry("Execution", "Agent", ParseFailure(decoded.val))),
                      FALSE, <<>>)
    ELSE multi_step_executed(problem,
                             run_function_calls(s2, response.response, decoded.val))

\* a faulty finish: the conversation ends and no record is appended
multi_step_appended_unwritten(problem, response, s2) ==
    IF contains_finish(response.response)
    THEN Handled(problem, s2, TRUE, <<>>)
    ELSE multi_step_decoded(problem, response, s2,
                            decode_function_list(response.response))

\* MultiStep: the response has been appended as Agent -> Execution (s2)
multi_step_appended(problem, response, s2) ==
    IF contains_finish(response.response)
    THEN Handled(problem, s2, TRUE, <<agent_finish_conversation(problem.id, s2)>>)
    ELSE multi_step_decoded(problem, response, s2,
                            decode_function_list(response.response))

\* a faulty cap: the response is appended to the transcript before the step
\* counter is compared
multi_step_counted_late(problem, response, s1) ==
    IF s1.dialogue_history = <<>>
    THEN HandlePanic(problem, "In multi-step, dialogue history is initialized with user question")
    ELSE IF s1.num_steps > MAX_TURNS
    THEN Handled(problem, push(s1, DialogueEntry("Agent", "Execution", response.response)),
                 TRUE,
                 <<agent_finish_conversation(problem.id,
                       push(s1, DialogueEntry("Agent", "Execution", response.response)))>>)
    ELSE multi_step_appended(problem, response,
             push(s1, DialogueEntry("Agent", "Execution", response.response)))

\* MultiStep: the step counter has been incremented (s1)
multi_step_counted(problem, response, s1) ==
    IF s1.num_steps > MAX_TURNS
    THEN Handled(problem, s1, TRUE, <<agent_finish_conversation(problem.id, s1)>>)
    ELSE IF s1.dialogue_history = <<>>
    THEN HandlePanic(problem, "In multi-step, dialogue history is initialized with user question")
    ELSE IF Last(s1.dialogue_history).recipient # "Agent"
    THEN HandlePanic(problem, "assertion failed: last_recipient == Agent")
    ELSE multi_step_appended(problem, response,
             push(s1, DialogueEntry("Agent", "Execution", response.response)))

\* handle_python_response, the MultiStep arm
handle_multi_step(problem, response) ==
    IF ~needs_llm_response(problem.state)
    THEN HandlePanic(problem, "handle_python_response called but state was not waiting for LLM")
    ELSE IF is_pending_execution(problem.state)
    THEN HandlePanic(problem, "handle_python_response called but state was pending execution")
    ELSE multi_step_counted(problem, response,
                            [problem.state EXCEPT !.num_steps = @ + 1])

\* a faulty relay: the entry stays addressed to Execution
relay_to_user_kept(state) == state

\* the entry just appended is readdressed to the user
relay_to_user(state) ==
    [state EXCEPT !.dialogue_history[Len(state.dialogue_history)].recipient = "User"]

\* MultiTurn: the agent's message went to the user instead (relayed)
multi_turn_relayed(problem, relayed) ==
    IF ~needs_llm_response(relayed)
    THEN HandlePanic(problem, "MultiTurn: after agent message to user, state should need LLM response")
    ELSE Handled(problem, relayed, FALSE, <<>>)

\* MultiTurn: the calls have run (s3); the step cap, then the closing assertion
multi_turn_executed(problem, s3) ==
    IF s3.num_steps > MAX_TURNS
    THEN Handled(problem, s3, TRUE, <<agent_finish_conversation(problem.id, s3)>>)
    ELSE IF ~needs_llm_response(s3)
    THEN HandlePanic(problem, "MultiTurn: after execution, state should need LLM response")
    ELSE Handled(problem, s3, FALSE, <<>>)

\* MultiTurn: the agent's response is in the transcript (s2) and has been decoded
multi_turn_decoded(problem, response, s2, decoded) ==
    IF decoded.tag = "Panic"
    THEN HandlePanic(problem, decoded.val)
    ELSE IF decoded.tag = "Err"
    THEN IF ~starts_with_bracket(response.response)
         THEN multi_turn_relayed(problem, relay_to_user(s2))
         ELSE Handled(problem,
                      push(s2, DialogueEntry("Execution", "Agent", ParseFailure(decoded.val))),
                      FALSE, <<>>)
    ELSE multi_turn_executed(problem,
                             run_function_calls(s2, response.response, decoded.val))

\* a faulty agent turn: the marker is looked for only in a response that does
\* not decode
multi_turn_agent_decoding(problem, response, s2) ==
    IF decode_function_list(response.response).tag = "Err"
       /\ contains_finish(response.response)
    THEN Handled(problem, s2, TRUE, <<agent_finish_conversation(problem.id, s2)>>)
    ELSE multi_turn_decoded(problem, response, s2,
                            decode_function_list(response.response))

\* MultiTurn: the agent's response has been appended as Agent -> Execution (s2)
multi_turn_agent(problem, response, s2) ==
    IF contains_finish(response.response)
    THEN Handled(problem, s2, TRUE, <<agent_finish_conversation(problem.id, s2)>>)
    ELSE multi_turn_decoded(problem, response, s2,
                            decode_function_list(response.response))

\* a faulty user turn: the opening message is examined for the marker too
multi_turn_user_marked(problem, response, asUser, first) ==
    IF contains_finish(response.response)
    THEN Handled(problem, asUser, TRUE,
                 <<agent_finish_conversation(problem.id, asUser)>>)
    ELSE IF ~needs_llm_response(asUser)
    THEN HandlePanic(problem, "MultiTurn: after user message, state should need LLM response")
    ELSE Handled(problem, asUser, FALSE, <<>>)

\* MultiTurn: the response has been appended as User -> Agent (asUser); first
\* tells the opening message, which is never examined for the marker
multi_turn_user(problem, response, asUser, first) ==
    IF ~first /\ contains_finish(response.response)
    THEN Handled(problem, asUser, TRUE,
                 <<agent_finish_conversation(problem.id, asUser)>>)
    ELSE IF ~needs_llm_response(asUser)
    THEN HandlePanic(problem, "MultiTurn: after user message, state should need LLM response")
    ELSE Handled(problem, asUser, FALSE, <<>>)

\* MultiTurn: the step counter has been incremented (s1)
multi_turn_counted(problem, response, s1) ==
    IF s1.dialogue_history = <<>>
    THEN multi_turn_user(problem, response,
             push(s1, DialogueEntry("User", "Agent", response.response)), TRUE)
    ELSE IF Last(s1.dialogue_history).recipient = "User"
    THEN multi_turn_user(problem, response,
             push(s1, DialogueEntry("User", "Agent", response.response)), FALSE)
    ELSE multi_turn_agent(problem, response,
             push(s1, DialogueEntry("Agent", "Execution", response.response)))

\* handle_python_response, the MultiTurn arm
handle_multi_turn(problem, response) ==
    IF ~needs_llm_response(problem.state)
    THEN HandlePanic(problem, "handle_python_response called but state was not waiting for LLM")
    ELSE IF is_pending_execution(problem.state)
    THEN HandlePanic(problem, "handle_python_response called but state was pending execution")
    ELSE multi_turn_counted(problem, response,
                            [problem.state EXCEPT !.num_steps = @ + 1])

\* AceProblem::handle_python_response
handle_python_response(problem, response) ==
    IF problem.identifier # response.identifier
    THEN HandlePanic(problem, "assertion failed: self.identifier == response.identifier")
    ELSE CASE problem.state.variant \in SingleTurnVariants ->
                 handle_single_turn(problem, response)
           [] problem.state.variant = "MultiStep" -> handle_multi_step(problem, response)
           [] OTHER -> handle_multi_turn(problem, response)

\* ------------------------------------------------------------------------
\* Startup (ace_generator.rs, datasets.rs, perturbations.rs)

\* PerturbationType::all_perturbations, in its order: the first and the last
\* of the eighteen types; only Transition changes the protocol
all_perturbations == <<"NoPerturbation", "Transition">>

\* PerturbationType::to_folder_name
to_folder_name(perturbation_type) ==
    CASE perturbation_type = "NoPerturbation" -> "no_perturbation"
      [] perturbation_type = "Transition" -> "transition"

\* DATASETS, in insertion order: one dataset of each problem type
DATASETS ==
    << [name |-> "data_agent_multi_step", problem_type |-> "AgentMultiStep"],
       [name |-> "data_agent_multi_turn", problem_type |-> "AgentMultiTurn"],
       [name |-> "data_normal_atom_bool", problem_type |-> "SingleTurnNormal"],
       [name |-> "data_normal_preference", problem_type |-> "SingleTurnPreference"],
       [name |-> "data_special_error_param", problem_type |-> "SingleTurnSpecial"] >>

\* the same table without the datasets whose problem type startup refuses
SupportedDatasets ==
    SelectSeq(DATASETS, LAMBDA d : d.problem_type # "SingleTurnSpecial")

DatasetNames == {DATASETS[i].name : i \in 1..Len(DATASETS)}

\* the ids of the items of a dataset file, in file order
ItemIds == <<"1", "2", "3", "4">>

\* output_path: BASE_OUTPUT_PATH / model / folder / (dataset + "_result.json")
output_path(perturbation_type, dataset_name) ==
    to_folder_name(perturbation_type) \o "/" \o dataset_name \o "_result.json"

OutputPaths ==
    {output_path(all_perturbations[i], d) : i \in 1..Len(all_perturbations),
                                            d \in DatasetNames}

\* a line of an output file as startup reads it back: the id of the record and
\* which of the two ResultEntry shapes it has
Line(record) ==
    [id |-> record.id,
     shape |-> IF "conversation" \in DOMAIN record THEN "Agent" ELSE "Normal"]

\* format!("{}_{}_{}", folder, dataset_name, entry.id)
Identifier(perturbation_type, dataset_name, id) ==
    to_folder_name(perturbation_type) \o "_" \o dataset_name \o "_" \o id

\* the initial ProblemState of one entry
initial_state(problem_type, id, has_transition_perturbation) ==
    CASE problem_type = "SingleTurnNormal" ->
            SingleTurnProblemState("SingleTurnNormal", has_transition_perturbation)
      [] problem_type = "SingleTurnPreference" ->
            SingleTurnProblemState("SingleTurnPreference", has_transition_perturbation)
      [] problem_type = "AgentMultiTurn" ->
            new_multi_turn(Question(id), has_transition_perturbation)
      [] problem_type = "AgentMultiStep" ->
            new_multi_step(Question(id), has_transition_perturbation)

\* struct AceProblem as parse_entries_to_problems builds it
AceProblem(perturbation_type, dataset_name, problem_type, id) ==
    [identifier |-> Identifier(perturbation_type, dataset_name, id),
     perturbation_type |-> to_folder_name(perturbation_type),
     dataset_name |-> dataset_name,
     id |-> id,
     status |-> "Waiting",
     question |-> Question(id),
     state |-> initial_state(problem_type, id, perturbation_type = "Transition"),
     output_file |-> output_path(perturbation_type, dataset_name)]

\* a faulty parse_entries_to_problems: the existing entries are not consulted
parse_entries_unfiltered(entries, perturbation_type, dataset_name, existing_entries, problem_type) ==
    IF problem_type = "SingleTurnSpecial"
    THEN [panic |-> "Special single-turn datasets are not supported in this project.",
          problems |-> <<>>]
    ELSE [panic |-> "none",
          problems |-> [i \in 1..Len(entries) |->
                          AceProblem(perturbation_type, dataset_name, problem_type,
                                     entries[i])]]

\* parse_entries_to_problems: one problem per entry whose id is not yet in the
\* output file, in entry order
parse_entries_to_problems(entries, perturbation_type, dataset_name, existing_entries, problem_type) ==
    LET existing_ids == {existing_entries[i].id : i \in 1..Len(existing_entries)}
        fresh == SelectSeq(entries, LAMBDA id : id \notin existing_ids)
    IN
    IF problem_type = "SingleTurnSpecial"
    THEN [panic |-> "Special single-turn datasets are not supported in this project.",
          problems |-> <<>>]
    ELSE [panic |-> "none",
          problems |-> [i \in 1..Len(fresh) |->
                          AceProblem(perturbation_type, dataset_name, problem_type, fresh[i])]]

RECURSIVE load_all(_, _, _, _, _, _)

\* the two nested loops of new_helper, from perturbation p and dataset d on
load_all(table, entries_of, output, p, d, queue) ==
    IF p > Len(all_perturbations) THEN [panic |-> "none", waiting_queue |-> queue]
    ELSE IF d > Len(table) THEN load_all(table, entries_of, output, p + 1, 1, queue)
    ELSE LET r == parse_entries_to_problems(
                      entries_of[table[d].name], all_perturbations[p], table[d].name,
                      output[output_path(all_perturbations[p], table[d].name)],
                      table[d].problem_type)
         IN IF r.panic # "none" THEN [panic |-> r.panic, waiting_queue |-> <<>>]
            ELSE load_all(table, entries_of, output, p, d + 1, queue \o r.problems)

\* AceGenerator::new_helper
new_helper(table, entries_of, output) == load_all(table, entries_of, output, 1, 1, <<>>)

\* ------------------------------------------------------------------------
\* The scheduler's state

VARIABLES
    table,            \* the dataset table the process was built with
    dataset_files,    \* dataset name -> the ids of its items, in file order
    files,            \* output path -> the lines of the file
    waiting_queue,    \* AceGenerator.waiting_queue, head first
    executing_pool,   \* AceGenerator.executing_pool: identifier -> AceProblem
    num_completed,    \* AceGenerator.num_completed
    total_num,        \* AceGenerator.total_num
    panic,            \* "none", or the message the process died with
    ret,              \* what the last operation returned
    last_write,       \* the records the last operation appended, with their file
    sim,              \* the simulated model's memory (SpecSerial)
    world,            \* a WorldState under execute_function_calls (SpecWorld)
    wr,               \* the callers of receive_response and the output files,
                      \* write by write (SpecWrite)
    dec,              \* a text on its way through the decoder (SpecDecode)
    ev                \* a run of the grader (SpecGrade)

vars == <<table, dataset_files, files, waiting_queue, executing_pool, num_completed,
          total_num, panic, ret, last_write, sim, world, wr, dec, ev>>

EmptyPool == [x \in {} |-> 0]

\* op: the operation; some/task: the Option next_task returned; response: the
\* text receive_response was given; completed: what handle_python_response
\* returned; problem: the problem as handle_python_response left it
NoRet == [op |-> "none", identifier |-> "", task |-> NoTask, some |-> FALSE,
          response |-> <<>>, completed |-> FALSE, problem |-> <<>>]

NoSim == [identifier |-> "", last |-> <<>>, switches |-> 0]

\* world_state: the WorldState; function_calls, results: the last batch given
\* to execute_function_calls and what it returned; before: the WorldState
\* before that batch; batches: how many batches have been executed
World(before, function_calls, ex, batches) ==
    [world_state |-> ex.world_state, results |-> ex.results,
     function_calls |-> function_calls, before |-> before, batches |-> batches]

\* no WorldState outside a problem
NoWorld ==
    World(WorldStateDefault, <<>>, Executed(WorldStateDefault, <<>>), 0)

\* the threads of the coordinator that call receive_response
Threads == {"t1", "t2"}

\* the problems about to complete: three of one dataset, sharing its output
\* file, and one of another dataset
Completing ==
    { [id |-> "1", output_file |-> output_path("NoPerturbation", "data_normal_atom_bool")],
      [id |-> "2", output_file |-> output_path("NoPerturbation", "data_normal_atom_bool")],
      [id |-> "3", output_file |-> output_path("NoPerturbation", "data_normal_atom_bool")],
      [id |-> "1", output_file |-> output_path("NoPerturbation", "data_agent_multi_step")] }

NoProblem == [id |-> "", output_file |-> ""]

\* gil: the thread inside a method of the generator; pc, problem: where each
\* thread is, and the problem whose record it writes; todo: the problems not
\* yet answered; borrowed: output file -> the threads holding a RefMut of its
\* handle; disk: output file -> the writes the file has received, in order
Writes(gil, pc, problem, todo, borrowed, disk, aborted) ==
    [gil |-> gil, pc |-> pc, problem |-> problem, todo |-> todo,
     borrowed |-> borrowed, disk |-> disk, aborted |-> aborted]

\* nobody writes
NoWrites ==
    Writes("none", [t \in Threads |-> "idle"], [t \in Threads |-> NoProblem], {},
           [o \in OutputPaths |-> {}], [o \in OutputPaths |-> <<>>], FALSE)

\* pc: how far the text has come; kind: what sort of text it is; calls: the
\* value it was rendered from, if any; outcome: what decode_function_list
\* returned
Decoding(pc, kind, calls, text, outcome) ==
    [pc |-> pc, kind |-> kind, calls |-> calls, text |-> text, outcome |-> outcome]

\* no text is being decoded
NoDecoding == Decoding("none", "none", <<>>, <<>>, Ok(<<>>))

\* pc: whether the grader has run; test_category, problem_entries,
\* result_entries, possible_answer_entries: what it is given; final_results:
\* what it returned
Grading(pc, test_category, problem_entries, result_entries, possible_answer_entries, final_results) ==
    [pc |-> pc, test_category |-> test_category, problem_entries |-> problem_entries,
     result_entries |-> result_entries,
     possible_answer_entries |-> possible_answer_entries,
     final_results |-> final_results]

\* no grading is going on
NoGrading == Grading("none", "none", <<>>, <<>>, <<>>, <<>>)

\* the in-memory state of a process that has just run new_helper
Started(t, d, f) ==
    \E g \in {new_helper(t, d, f)} :
    /\ waiting_queue' = g.waiting_queue
    /\ executing_pool' = EmptyPool
    /\ num_completed' = 0
    /\ total_num' = Len(g.waiting_queue)
    /\ panic' = g.panic
    /\ ret' = NoRet
    /\ last_write' = <<>>

\* the process aborts: its memory is gone, the files stay
Crash(why) ==
    /\ panic' = why
    /\ waiting_queue' = <<>>
    /\ executing_pool' = EmptyPool
    /\ num_completed' = 0
    /\ total_num' = 0
    /\ ret' = NoRet
    /\ last_write' = <<>>
    /\ UNCHANGED files

Prefix(n) == SubSeq(ItemIds, 1, n)

\* the dataset files a run may find: every dataset holds a prefix of ItemIds,
\* at most n items in all; the special dataset holds one item
DatasetContents(n) ==
    {d \in [DatasetNames -> {Prefix(k) : k \in 0..n}] :
        /\ Len(d["data_agent_multi_step"]) + Len(d["data_agent_multi_turn"])
             + Len(d["data_normal_atom_bool"]) + Len(d["data_normal_preference"])
             <= n
        /\ d["data_special_error_param"] = Prefix(1)}

\* the first start, on empty output files, with n dataset items at most
FirstStart(n) ==
    /\ table \in {DATASETS, SupportedDatasets}
    /\ dataset_files \in DatasetContents(n)
    /\ files = [o \in OutputPaths |-> <<>>]
    /\ \E g \in {new_helper(table, dataset_files, files)} :
       /\ waiting_queue = g.waiting_queue
       /\ total_num = Len(g.waiting_queue)
       /\ panic = g.panic
    /\ executing_pool = EmptyPool
    /\ num_completed = 0
    /\ ret = NoRet
    /\ last_write = <<>>
    /\ sim = NoSim
    /\ world = NoWorld
    /\ wr = NoWrites
    /\ dec = NoDecoding
    /\ ev = NoGrading

Init == FirstStart(MaxItems)

InitSerial == FirstStart(MaxSerialItems)

\* ------------------------------------------------------------------------
\* The scheduler's operations

\* a faulty insert: the entries already in the map are lost
insert_alone(pool, key, value) == [x \in {key} |-> value]

\* HashMap::insert
insert(pool, key, value) ==
    [x \in DOMAIN pool \cup {key} |-> IF x = key THEN value ELSE pool[x]]

\* a faulty remove: the entry stays
remove_nothing(pool, key) == pool

\* HashMap::remove
remove(pool, key) == [x \in DOMAIN pool \ {key} |-> pool[x]]

\* VecDeque::push_back, where the code calls push_front
push_back(queue, problem) == queue \o <<problem>>

\* VecDeque::push_front
push_front(queue, problem) == <<problem>> \o queue

\* AceGenerator::next_task_helper
next_task_helper ==
    /\ panic = "none"
    /\ IF waiting_queue = <<>>
       THEN /\ ret' = [NoRet EXCEPT !.op = "next_task"]
            /\ last_write' = <<>>
            /\ UNCHANGED <<files, waiting_queue, executing_pool, num_completed,
                           total_num, panic>>
       ELSE LET problem == [Head(waiting_queue) EXCEPT !.status = "Executing"]
            IN \E python_task \in {build_python_task(problem)} :
               IF python_task.panic # "none"
               THEN Crash(python_task.panic)
               ELSE /\ waiting_queue' = Tail(waiting_queue)
                    /\ executing_pool' = insert(executing_pool, problem.identifier, problem)
                    /\ ret' = [NoRet EXCEPT !.op = "next_task", !.some = TRUE,
                                            !.identifier = problem.identifier,
                                            !.task = python_task.task]
                    /\ last_write' = <<>>
                    /\ UNCHANGED <<files, num_completed, total_num, panic>>
    /\ UNCHANGED <<table, dataset_files>>

\* a faulty receive_response_helper: a completed problem is counted twice
receive_response_helper_twice(response) ==
    /\ panic = "none"
    /\ IF response.identifier \notin DOMAIN executing_pool
       THEN Crash("The problem is not in the executing pool")
       ELSE \E h \in {handle_python_response(executing_pool[response.identifier], response)} :
               IF h.panic # "none"
               THEN Crash(h.panic)
               ELSE /\ executing_pool' = remove(executing_pool, response.identifier)
                    /\ files' = [files EXCEPT ![h.problem.output_file] =
                                    @ \o [i \in 1..Len(h.written) |-> Line(h.written[i])]]
                    /\ last_write' = [i \in 1..Len(h.written) |->
                                        [file |-> h.problem.output_file,
                                         record |-> h.written[i]]]
                    /\ IF ~h.completed
                       THEN /\ waiting_queue' =
                                 push_front(waiting_queue,
                                            [h.problem EXCEPT !.status = "Waiting"])
                            /\ UNCHANGED num_completed
                       ELSE /\ num_completed' = num_completed + 2
                            /\ UNCHANGED waiting_queue
                    /\ ret' = [NoRet EXCEPT !.op = "receive_response",
                                            !.identifier = response.identifier,
                                            !.response = response.response,
                                            !.completed = h.completed,
                                            !.problem = <<h.problem>>]
                    /\ UNCHANGED <<total_num, panic>>
    /\ UNCHANGED <<table, dataset_files>>

\* AceGenerator::receive_response_helper
receive_response_helper(response) ==
    /\ panic = "none"
    /\ IF response.identifier \notin DOMAIN executing_pool
       THEN Crash("The problem is not in the executing pool")
       ELSE \E h \in {handle_python_response(executing_pool[response.identifier], response)} :
               IF h.panic # "none"
               THEN Crash(h.panic)
               ELSE /\ executing_pool' = remove(executing_pool, response.identifier)
                    /\ files' = [files EXCEPT ![h.problem.output_file] =
                                    @ \o [i \in 1..Len(h.written) |-> Line(h.written[i])]]
                    /\ last_write' = [i \in 1..Len(h.written) |->
                                        [file |-> h.problem.output_file,
                                         record |-> h.written[i]]]
                    /\ IF ~h.completed
                       THEN /\ waiting_queue' =
                                 push_front(waiting_queue,
                                            [h.problem EXCEPT !.status = "Waiting"])
                            /\ UNCHANGED num_completed
                       ELSE /\ num_completed' = num_completed + 1
                            /\ UNCHANGED waiting_queue
                    /\ ret' = [NoRet EXCEPT !.op = "receive_response",
                                            !.identifier = response.identifier,
                                            !.response = response.response,
                                            !.completed = h.completed,
                                            !.problem = <<h.problem>>]
                    /\ UNCHANGED <<total_num, panic>>
    /\ UNCHANGED <<table, dataset_files>>

\* ------------------------------------------------------------------------
\* The coordinator and the external model caller

PythonResponse(identifier, text) == [identifier |-> identifier, response |-> text]

IsAgent(problem) == problem.state.variant \in AgentVariants

RECURSIVE SumSteps(_, _)
SumSteps(problems, i) ==
    IF i > Len(problems) THEN 0
    ELSE problems[i].state.num_steps + SumSteps(problems, i + 1)

RECURSIVE SumPool(_, _)
SumPool(pool, keys) ==
    IF keys = {} THEN 0
    ELSE LET k == CHOOSE x \in keys : TRUE IN
         pool[k].state.num_steps + SumPool(pool, keys \ {k})

\* the responses that the unfinished agent problems have had
LiveSteps == SumSteps(waiting_queue, 1) + SumPool(executing_pool, DOMAIN executing_pool)

\* the coordinator asks for a task while it has room for one in flight
NextTask ==
    /\ Cardinality(DOMAIN executing_pool) < MaxInFlight
    /\ next_task_helper
    /\ UNCHANGED <<sim, world, wr, dec, ev>>

\* the model caller answers an outstanding task with any text
ReceiveResponse ==
    \E identifier \in DOMAIN executing_pool, text \in Texts :
        /\ IsAgent(executing_pool[identifier]) => LiveSteps < MaxLiveSteps
        /\ receive_response_helper(PythonResponse(identifier, text))
        /\ UNCHANGED <<sim, world, wr, dec, ev>>

\* the process is stopped and started again on the files it left
Restart ==
    /\ Started(table, dataset_files, files)
    /\ sim' = NoSim
    /\ UNCHANGED <<table, dataset_files, files, world, wr, dec, ev>>

Next == NextTask \/ ReceiveResponse \/ Restart

Spec == Init /\ [][Next]_vars

\* the coordinator works on one task at a time
SerialNextTask ==
    /\ executing_pool = EmptyPool
    /\ next_task_helper
    /\ UNCHANGED <<sim, world, wr, dec, ev>>

\* whether the simulated model may answer text to problem identifier: it
\* repeats what it last said to this problem, or changes its text, MaxSwitch
\* times at most
MayAnswer(identifier, text) ==
    \/ sim.identifier # identifier
    \/ sim.last = text
    \/ sim.switches < MaxSwitch

Answered(identifier, text) ==
    IF sim.identifier # identifier
    THEN [identifier |-> identifier, last |-> text, switches |-> 0]
    ELSE IF sim.last = text THEN sim
    ELSE [sim EXCEPT !.last = text, !.switches = @ + 1]

\* the model caller answers the outstanding task
SerialReceiveResponse ==
    \E identifier \in DOMAIN executing_pool, text \in SerialTexts :
        /\ executing_pool[identifier].state.num_steps < MaxSteps
        /\ MayAnswer(identifier, text)
        /\ receive_response_helper(PythonResponse(identifier, text))
        /\ sim' = Answered(identifier, text)
        /\ UNCHANGED <<world, wr, dec, ev>>

NextSerial == SerialNextTask \/ SerialReceiveResponse \/ Restart

\* one problem at a time, each followed to the step cap and beyond
SpecSerial == InitSerial /\ [][NextSerial]_vars

\* a workload of single-turn and MultiStep problems on a scheduler that
\* started
InitLive ==
    /\ FirstStart(MaxLiveItems)
    /\ table = SupportedDatasets
    /\ dataset_files["data_agent_multi_turn"] = <<>>

NextLive == SerialNextTask \/ SerialReceiveResponse

\* a task is out. SerialReceiveResponse is enabled exactly then: the pool is
\* empty once the process has aborted, a problem of this workload is out with
\* fewer than MaxSteps responses, the model may always repeat its last text,
\* and receive_response_helper has an outcome for every response
ResponseOutstanding == executing_pool # EmptyPool

\* every issued task is answered in the end, with whatever text: weak
\* fairness of SerialReceiveResponse, its enabling condition written out
EveryTaskAnswered ==
    \/ []<>(~ResponseOutstanding)
    \/ []<><<SerialReceiveResponse>>_vars

\* the coordinator keeps calling next_task and every issued task is answered
SpecLive ==
    /\ InitLive
    /\ [][NextLive]_vars
    /\ WF_vars(SerialNextTask)
    /\ EveryTaskAnswered

\* ------------------------------------------------------------------------
\* A world state under batches of calls

\* the number of batches executed on one world state
MaxBatches == 2

\* struct FunctionCallHygienic
FunctionCallHygienic(name, parameters) == [name |-> name, parameters |-> parameters]

Parameter(key, value) == [key |-> key, value |-> value]

\* calls as the decoder delivers them: the connectivity calls by name and by
\* alias, domain calls with well-formed and with incomplete parameters, a name
\* of no tool
NormalCalls ==
    { FunctionCallHygienic("turn_on_wifi", <<>>),
      FunctionCallHygienic("L_D", <<>>),
      FunctionCallHygienic("send_message",
          <<Parameter("sender_name", "'Eve'"), Parameter("receiver_name", "'Frank'"),
            Parameter("message", "'a'")>>),
      FunctionCallHygienic("send_message", <<Parameter("sender_name", "'Eve'")>>),
      FunctionCallHygienic("add_reminder",
          <<Parameter("title", "'a'"), Parameter("description", "'b'"),
            Parameter("time", "'a'")>>),
      FunctionCallHygienic("view_all_reminders", <<>>),
      FunctionCallHygienic("login_food_platform",
          <<Parameter("username", "'Eve'"), Parameter("password", "'password123'")>>),
      FunctionCallHygienic("f", <<Parameter("x", "1")>>) }

\* calls whose name carries a bait suffix
BaitCalls ==
    { FunctionCallHygienic("send_message_1",
          <<Parameter("sender_name", "'Eve'"), Parameter("receiver_name", "'Frank'"),
            Parameter("message", "'a'")>>),
      FunctionCallHygienic("f_Fast", <<>>) }

\* the batches given to execute_function_calls: one call, two calls, and a
\* bait call between two normal calls
Batches ==
    {<<a>> : a \in NormalCalls \cup BaitCalls}
    \cup {<<a, b>> : a \in NormalCalls \cup BaitCalls, b \in NormalCalls \cup BaitCalls}
    \cup {<<a, b, c>> : a \in NormalCalls, b \in BaitCalls, c \in NormalCalls}

\* the initial_config of a dataset entry as deserialized: nothing, the base
\* flags, or the base flags and an inbox with room for one message (the
\* base_api field of MessageApi is skipped by serde and takes its default)
InitialConfigs ==
    { WorldStateDefault,
      [WorldStateDefault EXCEPT !.base_api = Present(BaseApi(FALSE, FALSE))],
      [WorldStateDefault EXCEPT !.base_api = Present(BaseApi(TRUE, TRUE))],
      [WorldStateDefault EXCEPT
          !.base_api = Present(BaseApi(TRUE, TRUE)),
          !.message_api = Present(MessageApi(BaseApiDefault, 6,
                                             SubSeq(MessageApiDefault.inbox, 1, 5)))] }

\* the involved_classes of a dataset entry
InvolvedClassLists ==
    { <<"MessageApi", "ReminderApi">>,
      <<"BaseApi", "MessageApi", "ReminderApi", "FoodPlatform">>,
      <<"BaseApi", "ReminderApi">>,
      <<"FoodPlatform">>,
      <<"Travel">> }

\* the world states new_multi_step and new_multi_turn build from the entries
PopulatedWorlds ==
    {populate_with_involved_classes(c, k).world_state :
        c \in InitialConfigs, k \in InvolvedClassLists}

\* the call lists of the reference solutions
GroundTruthPaths ==
    { <<>>,
      <<FunctionCallHygienic("turn_on_wifi", <<>>)>>,
      <<FunctionCallHygienic("turn_on_wifi", <<>>),
        FunctionCallHygienic("send_message",
            <<Parameter("sender_name", "'Eve'"), Parameter("receiver_name", "'Frank'"),
              Parameter("message", "'a'")>>)>>,
      <<FunctionCallHygienic("add_reminder",
            <<Parameter("title", "'a'"), Parameter("description", "'b'"),
              Parameter("time", "'a'")>>)>> }

\* the ground truths a world state is graded against: the final world states
\* of the reference solutions
GroundTruths ==
    {execute_function_calls(w, b).world_state :
        w \in PopulatedWorlds, b \in GroundTruthPaths}

\* a process that holds no problem, and a world state just populated
InitWorld ==
    /\ table = SupportedDatasets
    /\ dataset_files = [d \in DatasetNames |-> <<>>]
    /\ files = [o \in OutputPaths |-> <<>>]
    /\ waiting_queue = <<>>
    /\ executing_pool = EmptyPool
    /\ num_completed = 0
    /\ total_num = 0
    /\ panic = "none"
    /\ ret = NoRet
    /\ last_write = <<>>
    /\ sim = NoSim
    /\ wr = NoWrites
    /\ dec = NoDecoding
    /\ ev = NoGrading
    /\ \E w \in PopulatedWorlds : world = World(w, <<>>, Executed(w, <<>>), 0)

\* one batch of calls is executed on the world state
ExecuteFunctionCalls ==
    /\ world.batches < MaxBatches
    /\ \E function_calls \in Batches :
       \E ex \in {execute_function_calls(world.world_state, function_calls)} :
           world' = World(world.world_state, function_calls, ex, world.batches + 1)
    /\ UNCHANGED <<table, dataset_files, files, waiting_queue, executing_pool,
                   num_completed, total_num, panic, ret, last_write, sim, wr, dec, ev>>

SpecWorld == InitWorld /\ [][ExecuteFunctionCalls]_vars

\* ------------------------------------------------------------------------
\* Completions write by write

\* a faulty borrow: the handle is written through without being borrowed
borrow_mut_unregistered(holders, t) == [panic |-> "none", holders |-> holders]

\* AtomicRefCell::borrow_mut: panics when the cell is borrowed
borrow_mut(holders, t) ==
    IF holders # {} THEN [panic |-> "already borrowed", holders |-> holders]
    ELSE [panic |-> "none", holders |-> {t}]

\* the two pieces writeln!(file_ref, "{}", entry_serialized) hands to the
\* unbuffered File, each in a write of its own
RecordPiece(problem, t) == [piece |-> "record", id |-> problem.id, by |-> t]
NewlinePiece(t) == [piece |-> "newline", id |-> "", by |-> t]

\* a process with its output files open and the completions to come
InitWrite ==
    /\ table = SupportedDatasets
    /\ dataset_files = [d \in DatasetNames |-> <<>>]
    /\ files = [o \in OutputPaths |-> <<>>]
    /\ waiting_queue = <<>>
    /\ executing_pool = EmptyPool
    /\ num_completed = 0
    /\ total_num = 0
    /\ panic = "none"
    /\ ret = NoRet
    /\ last_write = <<>>
    /\ sim = NoSim
    /\ world = NoWorld
    /\ wr = [NoWrites EXCEPT !.todo = Completing]
    /\ dec = NoDecoding
    /\ ev = NoGrading

Quiet ==
    UNCHANGED <<table, dataset_files, files, waiting_queue, executing_pool,
                num_completed, total_num, panic, ret, last_write, sim, world,
                dec, ev>>

\* a thread has the final response of a problem and calls receive_response
Call(t) ==
    /\ ~wr.aborted
    /\ wr.pc[t] = "idle"
    /\ \E problem \in wr.todo :
           wr' = [wr EXCEPT !.pc[t] = "calling", !.problem[t] = problem,
                            !.todo = @ \ {problem}]
    /\ Quiet

\* receive_response(&mut self, ..): the call runs once the thread has the
\* interpreter lock, and keeps it until it returns
Enter(t) ==
    /\ ~wr.aborted
    /\ wr.pc[t] = "calling"
    /\ wr.gil = "none"
    /\ wr' = [wr EXCEPT !.gil = t, !.pc[t] = "handling"]
    /\ Quiet

\* let mut file_ref = self.output_file.borrow_mut()
BorrowMut(t) ==
    /\ ~wr.aborted
    /\ wr.pc[t] = "handling"
    /\ \E b \in {borrow_mut(wr.borrowed[wr.problem[t].output_file], t)} :
           IF b.panic # "none"
           THEN wr' = [wr EXCEPT !.aborted = TRUE]
           ELSE wr' = [wr EXCEPT !.borrowed[wr.problem[t].output_file] = b.holders,
                                 !.pc[t] = "borrowed"]
    /\ Quiet

\* writeln!, the first write: the serialized entry
WriteRecord(t) ==
    /\ ~wr.aborted
    /\ wr.pc[t] = "borrowed"
    /\ wr' = [wr EXCEPT !.disk[wr.problem[t].output_file] =
                            Append(@, RecordPiece(wr.problem[t], t)),
                        !.pc[t] = "record_written"]
    /\ Quiet

\* writeln!, the second write: the line end
WriteNewline(t) ==
    /\ ~wr.aborted
    /\ wr.pc[t] = "record_written"
    /\ wr' = [wr EXCEPT !.disk[wr.problem[t].output_file] = Append(@, NewlinePiece(t)),
                        !.pc[t] = "line_written"]
    /\ Quiet

\* file_ref goes out of scope and the call returns
Return(t) ==
    /\ ~wr.aborted
    /\ wr.pc[t] = "line_written"
    /\ wr' = [wr EXCEPT !.borrowed[wr.problem[t].output_file] = @ \ {t},
                        !.gil = "none", !.pc[t] = "idle", !.problem[t] = NoProblem]
    /\ Quiet

NextWrite ==
    \E t \in Threads :
        \/ Call(t) \/ Enter(t) \/ BorrowMut(t)
        \/ WriteRecord(t) \/ WriteNewline(t) \/ Return(t)

SpecWrite == InitWrite /\ [][NextWrite]_vars

\* ------------------------------------------------------------------------
\* A text through the decoder

\* calls in one call list
MaxCalls == 2
\* parameters of one call
MaxParams == 2

\* serde_json::Value as a tagged tree: a string and a number carry their
\* literal, a negative number its magnitude
JsonValues ==
    LET one == [type |-> "Number", negative |-> FALSE, token |-> "1"]
        a == [type |-> "String", token |-> "'a'"]
        null == [type |-> "Null"]
    IN {a, one, null,
        [type |-> "Number", negative |-> TRUE, token |-> "1"],
        [type |-> "Number", negative |-> FALSE, token |-> "1.5"],
        \* i64::MIN
        [type |-> "Number", negative |-> TRUE, token |-> "9223372036854775808"],
        [type |-> "Bool", b |-> TRUE],
        [type |-> "Array", items |-> <<one, a>>],
        [type |-> "Object",
         entries |-> <<[key |-> "'a'", value |-> one],
                       [key |-> "'b'", value |-> [type |-> "Array", items |-> <<null>>]]>>]}

RECURSIVE value_of(_)

\* the tree as ast_expr_to_structured returns a value: a scalar is its JSON
\* text, an array the sequence of its items, an object the map of its entries
value_of(tree) ==
    CASE tree.type = "String" -> tree.token
      [] tree.type = "Number" -> IF tree.negative THEN "-" \o tree.token ELSE tree.token
      [] tree.type = "Bool" -> IF tree.b THEN "true" ELSE "false"
      [] tree.type = "Null" -> "null"
      [] tree.type = "Array" -> [i \in 1..Len(tree.items) |-> value_of(tree.items[i])]
      [] tree.type = "Object" ->
            [k \in {tree.entries[i].key : i \in 1..Len(tree.entries)} |->
                value_of(tree.entries[CHOOSE i \in 1..Len(tree.entries) :
                                          tree.entries[i].key = k].value)]

RECURSIVE render_value(_)
RECURSIVE render_items(_, _)
RECURSIVE render_entries(_, _)

\* the items of an array, separated by commas
render_items(items, i) ==
    IF i > Len(items) THEN <<>>
    ELSE (IF i > 1 THEN <<",">> ELSE <<>>) \o render_value(items[i])
         \o render_items(items, i + 1)

\* the key: value entries of an object, separated by commas
render_entries(entries, i) ==
    IF i > Len(entries) THEN <<>>
    ELSE (IF i > 1 THEN <<",">> ELSE <<>>) \o <<entries[i].key, ":">>
         \o render_value(entries[i].value) \o render_entries(entries, i + 1)

\* a value as a literal of the call-list grammar
render_value(tree) ==
    CASE tree.type = "String" -> <<tree.token>>
      [] tree.type = "Number" ->
            IF tree.negative THEN <<"-", tree.token>> ELSE <<tree.token>>
      [] tree.type = "Bool" -> IF tree.b THEN <<"True">> ELSE <<"False">>
      [] tree.type = "Null" -> <<"None">>
      [] tree.type = "Array" -> <<"[">> \o render_items(tree.items, 1) \o <<"]">>
      [] tree.type = "Object" -> <<"{">> \o render_entries(tree.entries, 1) \o <<"}">>

RECURSIVE render_parameters(_, _)

\* the key=value parameters of a call, separated by commas
render_parameters(parameters, i) ==
    IF i > Len(parameters) THEN <<>>
    ELSE (IF i > 1 THEN <<",">> ELSE <<>>) \o <<parameters[i].key, "=">>
         \o render_value(parameters[i].value) \o render_parameters(parameters, i + 1)

\* one call: name(key=value, ...)
render_call(call) ==
    <<call.name, "(">> \o render_parameters(call.parameters, 1) \o <<")">>

RECURSIVE render_calls(_, _)

render_calls(calls, i) ==
    IF i > Len(calls) THEN <<>>
    ELSE (IF i > 1 THEN <<",">> ELSE <<>>) \o render_call(calls[i])
         \o render_calls(calls, i + 1)

\* a sequence of calls in the textual call-list form: [call, ...]
render(calls) == <<"[">> \o render_calls(calls, 1) \o <<"]">>

\* the calls as Vec<FunctionCallHygienic>
structured(calls) ==
    [c \in 1..Len(calls) |->
        FunctionCallHygienic(calls[c].name,
            [p \in 1..Len(calls[c].parameters) |->
                Parameter(calls[c].parameters[p].key,
                          value_of(calls[c].parameters[p].value))])]

\* the parameter lists of a call: distinct keys, in any order
ParameterLists ==
    UNION {{p \in [1..n -> [key : {"x", "y"}, value : JsonValues]] :
               \A i, j \in 1..n : p[i].key = p[j].key => i = j} : n \in 0..MaxParams}

\* the calls the lists are made of
Calls == {[name |-> "f", parameters |-> p] : p \in ParameterLists}

CallLists == UNION {[1..n -> Calls] : n \in 0..MaxCalls}

\* texts that are one call without the enclosing brackets
BareCalls == {render_call(c) : c \in Calls}

\* texts that are several top-level statements
StatementLists ==
    {a \o <<sep>> \o b : a \in {T_CALLS, <<"[", "]">>, T_BARE, <<"1">>},
                         b \in {T_CALLS, <<"[", "]">>, T_BARE, <<"1">>},
                         sep \in {"\n", ";"}}

\* texts that are one expression other than a list display
NonLists ==
    {render_value(v) : v \in {w \in JsonValues : w.type # "Array"}} \cup {<<"x">>}

\* texts that are a list of one call written with positional arguments
PositionalCalls ==
    {<<"[", "f", "(">> \o a \o <<")", "]">> :
        a \in {<<"1">>, <<"'a'", ",", "'b'">>, <<"1", ",", "x", "=", "2">>,
               <<"1", ",", "x", "=", "2", ",", "y", "=", "'a'">>}}

\* texts that are no expression at all
Malformed == {T_MALFORMED, T_CHAT, T_FINISH, <<>>, <<"[", "f", "(", ")", ",", ",", "]">>}

\* a call list about to be rendered, or a text of another kind
InitDecode ==
    /\ table = SupportedDatasets
    /\ dataset_files = [d \in DatasetNames |-> <<>>]
    /\ files = [o \in OutputPaths |-> <<>>]
    /\ waiting_queue = <<>>
    /\ executing_pool = EmptyPool
    /\ num_completed = 0
    /\ total_num = 0
    /\ panic = "none"
    /\ ret = NoRet
    /\ last_write = <<>>
    /\ sim = NoSim
    /\ world = NoWorld
    /\ wr = NoWrites
    /\ ev = NoGrading
    /\ \/ \E calls \in CallLists : dec = Decoding("built", "rendered", calls, <<>>, Ok(<<>>))
       \/ \E text \in BareCalls : dec = Decoding("text", "bare call", <<>>, text, Ok(<<>>))
       \/ \E text \in StatementLists :
             dec = Decoding("text", "statements", <<>>, text, Ok(<<>>))
       \/ \E text \in NonLists : dec = Decoding("text", "non-list", <<>>, text, Ok(<<>>))
       \/ \E text \in PositionalCalls :
             dec = Decoding("text", "positional", <<>>, text, Ok(<<>>))
       \/ \E text \in Malformed : dec = Decoding("text", "malformed", <<>>, text, Ok(<<>>))

\* the call list is written out
Render ==
    /\ dec.pc = "built"
    /\ dec' = [dec EXCEPT !.pc = "text", !.text = render(dec.calls)]
    /\ UNCHANGED <<table, dataset_files, files, waiting_queue, executing_pool,
                   num_completed, total_num, panic, ret, last_write, sim, world, wr, ev>>

\* decode_function_list is given the text
Decode ==
    /\ dec.pc = "text"
    /\ dec' = [dec EXCEPT !.pc = "decoded", !.outcome = decode_function_list(dec.text)]
    /\ UNCHANGED <<table, dataset_files, files, waiting_queue, executing_pool,
                   num_completed, total_num, panic, ret, last_write, sim, world, wr, ev>>

NextDecode == Render \/ Decode

SpecDecode == InitDecode /\ [][NextDecode]_vars

\* ------------------------------------------------------------------------
\* The grader (ace_evaluator.rs)

RECURSIVE scan_brackets(_, _, _, _)

\* the loop of extract_outermost_bracket_content from position i on: start is
\* where the outermost bracket opened (0: nowhere yet), depth the nesting
scan_brackets(text, i, start, depth) ==
    IF i > Len(text) THEN Absent
    ELSE IF text[i] = "["
    THEN scan_brackets(text, i + 1, IF depth = 0 THEN i ELSE start, depth + 1)
    ELSE IF text[i] = "]"
    THEN IF depth - 1 = 0 /\ start # 0 THEN Present(SubSeq(text, start, i))
         ELSE scan_brackets(text, i + 1, start, depth - 1)
    ELSE scan_brackets(text, i + 1, start, depth)

\* extract_outermost_bracket_content
extract_outermost_bracket_content(text) == scan_brackets(text, 1, 0, 0)

RECURSIVE resolve_ast_by_type(_)
RECURSIVE ResolvedItems(_, _, _)

\* the items of a list display, left to right; the first failure ends it
ResolvedItems(elts, i, acc) ==
    IF i > Len(elts) THEN Ok(acc)
    ELSE LET r == resolve_ast_by_type(elts[i]) IN
         IF r.tag = "Ok" THEN ResolvedItems(elts, i + 1, Append(acc, r.val))
         ELSE r

\* resolve_ast_by_type, for the literals the graded texts hold; its Dict and
\* Call arms are left out, no graded text has either in a parameter value
resolve_ast_by_type(expr) ==
    CASE expr.node = "Constant" ->
            IF expr.value \in BigIntTokens THEN Ok("0") ELSE Ok(expr.value)
      [] expr.node = "UnaryOp" ->
            IF expr.operand.node = "Constant" /\ expr.operand.value \in NumberTokens
            THEN Ok("-" \o resolve_ast_by_type(expr.operand).val)
            ELSE IF expr.operand.node \in {"Constant", "List", "Name"}
            THEN Err("Cannot negate non-numeric value")
            ELSE Err("Unsupported AST type")
      [] expr.node = "List" -> ResolvedItems(expr.elts, 1, <<>>)
      [] expr.node = "Name" ->
            IF expr.id = "True" THEN Ok("true")
            ELSE IF expr.id = "False" THEN Ok("false")
            ELSE IF expr.id = "None" THEN Ok("null")
            ELSE Ok("'" \o expr.id \o "'")
      [] OTHER -> Err("Unsupported AST type")

RECURSIVE DecodedArgs(_, _, _)

\* the keyword arguments of one call into args_dict: a later keyword replaces
\* an earlier one of the same name
DecodedArgs(keywords, i, args_dict) ==
    IF i > Len(keywords) THEN Ok(args_dict)
    ELSE LET output == resolve_ast_by_type(keywords[i].value) IN
         IF output.tag # "Ok" THEN output
         ELSE DecodedArgs(keywords, i + 1,
                  [x \in DOMAIN args_dict \cup {keywords[i].arg} |->
                      IF x = keywords[i].arg THEN output.val ELSE args_dict[x]])

RECURSIVE DecodedCalls(_, _, _)

\* the loop of decode_ast over the elements of the list
DecodedCalls(elts, i, extracted) ==
    IF i > Len(elts) THEN Ok(extracted)
    ELSE IF elts[i].node # "Call" THEN Err("Expected Call")
    ELSE LET args_dict == DecodedArgs(elts[i].keywords, 1, [x \in {} |-> "null"]) IN
         IF args_dict.tag # "Ok" THEN args_dict
         ELSE DecodedCalls(elts, i + 1,
                  Append(extracted, [name |-> elts[i].func, parameters |-> args_dict.val]))

\* decode_ast: the decoded output is one {name: {parameter: value}} object
\* per call
decode_ast(input_str) ==
    LET parsed == ParseExpr(input_str, 1) IN
    IF ~parsed.ok \/ parsed.next # Len(input_str) + 1 THEN Err("Failed to parse AST")
    ELSE IF parsed.ast.node # "List" THEN Err("Expected list expression")
    ELSE DecodedCalls(parsed.ast.elts, 1, <<>>)

\* standardize_string on the strings of the model: the characters " ,./-_*^"
\* removed, lower case
standardize_string(input) ==
    CASE input = "'Wi-Fi'" -> "'wifi'"
      [] input = "'wifi on'" -> "'wifion'"
      [] OTHER -> input

\* str::contains on standardized strings
contains(haystack, needle) ==
    haystack = needle \/ (haystack = "'wifion'" /\ needle = "'wifi'")

\* sum_key_list: how many of the calls bear the name
sum_key_list(data, name) == Cardinality({i \in 1..Len(data) : data[i].name = name})

\* find_description: the first description whose name occurs in the key
find_description(func_descriptions, name) ==
    IF \E i \in 1..Len(func_descriptions) : func_descriptions[i].name = name
    THEN Present(func_descriptions[CHOOSE i \in 1..Len(func_descriptions) :
                    /\ func_descriptions[i].name = name
                    /\ \A j \in 1..(i - 1) : func_descriptions[j].name # name])
    ELSE Absent

\* string_checker: "" when the strings agree, the error type otherwise
string_checker(model_output, possible_answer, agent_category) ==
    IF agent_category
    THEN IF standardize_string(model_output) # standardize_string(possible_answer)
         THEN "value_error:string" ELSE ""
    ELSE IF ~contains(standardize_string(model_output), standardize_string(possible_answer))
         THEN "value_error:string" ELSE ""

\* Value::as_f64
as_f64(value) ==
    IF value \in NumberTokens \cup {"-" \o n : n \in NumberTokens}
    THEN Present(IF value = "1.0" THEN "1" ELSE IF value = "-1.0" THEN "-1" ELSE value)
    ELSE Absent

\* the keys of a serde_json::Map, in the order it iterates them
KeyOrder == <<"s", "x", "y">>

\* the check of one parameter of the model output in simple_function_checker
check_parameter(func_description, param, given, possible_answer, agent_category) ==
    IF param \notin DOMAIN func_description.properties \/ param \notin DOMAIN possible_answer
    THEN "addition_args"
    ELSE LET value == IF given = "'true'" THEN "true"
                      ELSE IF given = "'false'" THEN "false" ELSE given
             expected_value == possible_answer[param]
         IN
         IF func_description.properties[param] \in {"string", "enum"}
         THEN IF value \in StringTokens /\ expected_value \in StringTokens
              THEN string_checker(value, expected_value, agent_category)
              ELSE ""
         ELSE IF as_f64(value) # Absent /\ as_f64(expected_value) # Absent
              THEN IF as_f64(value) # as_f64(expected_value) THEN "value_error" ELSE ""
         ELSE IF value # expected_value THEN "value_error" ELSE ""

RECURSIVE check_parameters(_, _, _, _, _)

\* the loop over the parameters of the model output, in map order
check_parameters(func_description, model_params, possible_answer, agent_category, k) ==
    IF k > Len(KeyOrder) THEN ""
    ELSE IF KeyOrder[k] \notin DOMAIN model_params
    THEN check_parameters(func_description, model_params, possible_answer,
                          agent_category, k + 1)
    ELSE LET e == check_parameter(func_description, KeyOrder[k],
                                  model_params[KeyOrder[k]], possible_answer,
                                  agent_category)
         IN IF e # "" THEN e
            ELSE check_parameters(func_description, model_params, possible_answer,
                                  agent_category, k + 1)

\* simple_function_checker, for parameters of the scalar types: "" when the
\* call agrees with the answer, the error type otherwise
simple_function_checker(func_description, model_output, possible_answer, agent_category) ==
    IF DOMAIN model_output.parameters = {} /\ DOMAIN func_description.properties = {}
    THEN ""
    ELSE IF model_output.name # func_description.name THEN "wrong_function_name"
    ELSE IF \E r \in 1..Len(func_description.required) :
                func_description.required[r] \notin DOMAIN model_output.parameters
    THEN "lack_args"
    ELSE check_parameters(func_description, model_output.parameters, possible_answer,
                          agent_category, 1)

\* a faulty match: any call of the output that agrees with the answer will do
matched_any(func_description, model_output, entry, agent_category) ==
    IF \E m \in 1..Len(model_output) :
           /\ model_output[m].name = entry.name
           /\ simple_function_checker(func_description, model_output[m], entry.value,
                                      agent_category) = ""
    THEN "" ELSE "function_mismatch"

\* the inner loop of normal_checker for one answer: the first call of the
\* output that bears the name decides
matched(func_description, model_output, entry, agent_category) ==
    IF \A m \in 1..Len(model_output) : model_output[m].name # entry.name
    THEN "function_mismatch"
    ELSE simple_function_checker(func_description,
             model_output[CHOOSE m \in 1..Len(model_output) :
                             /\ model_output[m].name = entry.name
                             /\ \A j \in 1..(m - 1) : model_output[j].name # entry.name],
             entry.value, agent_category)

RECURSIVE check_each(_, _, _, _, _)

\* the outer loop of normal_checker over the answers, in key order
check_each(func_descriptions, model_output, entries, agent_category, i) ==
    IF i > Len(entries) THEN ""
    ELSE IF find_description(func_descriptions, entries[i].name) = Absent
    THEN "internal_error"
    ELSE LET e == matched(find_description(func_descriptions, entries[i].name)[1],
                          model_output, entries[i], agent_category)
         IN IF e # "" THEN e
            ELSE check_each(func_descriptions, model_output, entries, agent_category, i + 1)

\* normal_checker: "" when the output is valid, the error type otherwise.  A
\* possible answer is an object whose keys are call names, a repeated name
\* with a suffix _N; entries holds its members in key order, name being the
\* key without the suffix
normal_checker(func_descriptions, model_output, possible_answers, agent_category) ==
    IF ~possible_answers.is_object THEN "internal_error"
    ELSE IF Len(model_output) # Len(possible_answers.entries)
    THEN "wrong functions number"
    ELSE IF \E m \in 1..Len(model_output) :
                sum_key_list(model_output, model_output[m].name)
                    # sum_key_list(possible_answers.entries, model_output[m].name)
    THEN "function_mismatch"
    ELSE IF \E a \in 1..Len(possible_answers.entries) :
                sum_key_list(model_output, possible_answers.entries[a].name) = 0
    THEN "function_mismatch"
    ELSE check_each(func_descriptions, model_output, possible_answers.entries,
                    agent_category, 1)

\* the loop over the possible answers: "" when one of them finds the output
\* valid, otherwise the error type of the first one ("none": there was no
\* possible answer)
first_valid(func_descriptions, decoded_output, possible_answers, agent_category) ==
    IF \E i \in 1..Len(possible_answers) :
           normal_checker(func_descriptions, decoded_output, possible_answers[i],
                          agent_category) = ""
    THEN ""
    ELSE IF possible_answers = <<>> THEN "none"
    ELSE normal_checker(func_descriptions, decoded_output, possible_answers[1],
                        agent_category)

\* a per-item record of the grader
Verdict(id, valid, error_type) == [id |-> id, valid |-> valid, error_type |-> error_type]

\* a faulty loop body: an entry found valid gets a record too
grade_entry_recorded(problem_entry, result_entry, possible_answer_entry, agent_category) ==
    IF extract_outermost_bracket_content(result_entry.result) = Absent
    THEN [correct |-> 0,
          results |-> <<Verdict(problem_entry.id, FALSE, "wrong_output_format")>>]
    ELSE IF decode_ast(extract_outermost_bracket_content(result_entry.result)[1]).tag # "Ok"
    THEN [correct |-> 0,
          results |-> <<Verdict(problem_entry.id, FALSE, "wrong_output_format")>>]
    ELSE LET e == first_valid(problem_entry.function,
                      decode_ast(extract_outermost_bracket_content(result_entry.result)[1]).val,
                      possible_answer_entry.ground_truth, agent_category)
         IN IF e = "" THEN [correct |-> 1, results |-> <<Verdict(problem_entry.id, TRUE, "")>>]
            ELSE IF e = "none" THEN [correct |-> 0, results |-> <<>>]
            ELSE [correct |-> 0, results |-> <<Verdict(problem_entry.id, FALSE, e)>>]

\* the body of the loop of evaluate_normal_single_turn for one entry: what it
\* adds to correct_count and to results
grade_entry(problem_entry, result_entry, possible_answer_entry, agent_category) ==
    IF extract_outermost_bracket_content(result_entry.result) = Absent
    THEN [correct |-> 0,
          results |-> <<Verdict(problem_entry.id, FALSE, "wrong_output_format")>>]
    ELSE IF decode_ast(extract_outermost_bracket_content(result_entry.result)[1]).tag # "Ok"
    THEN [correct |-> 0,
          results |-> <<Verdict(problem_entry.id, FALSE, "wrong_output_format")>>]
    ELSE LET e == first_valid(problem_entry.function,
                      decode_ast(extract_outermost_bracket_content(result_entry.result)[1]).val,
                      possible_answer_entry.ground_truth, agent_category)
         IN IF e = "" THEN [correct |-> 1, results |-> <<>>]
            ELSE IF e = "none" THEN [correct |-> 0, results |-> <<>>]
            ELSE [correct |-> 0, results |-> <<Verdict(problem_entry.id, FALSE, e)>>]

RECURSIVE grade_from(_, _, _, _, _, _, _)

\* the loop of evaluate_normal_single_turn from entry i on
grade_from(result_entries, problem_entries, possible_answer_entries, agent_category, i, results, correct_count) ==
    IF i > Len(result_entries) THEN [results |-> results, correct_count |-> correct_count]
    ELSE LET g == grade_entry(problem_entries[i], result_entries[i],
                              possible_answer_entries[i], agent_category)
         IN grade_from(result_entries, problem_entries, possible_answer_entries,
                       agent_category, i + 1, results \o g.results,
                       correct_count + g.correct)

\* the summary record; accuracy is correct_count / total_count rounded to
\* three decimals, kept in thousandths
Summary(correct_count, total_count) ==
    [accuracy_thousandths |->
         IF total_count = 0 THEN 0
         ELSE (2 * correct_count * 1000 + total_count) \div (2 * total_count),
     correct_count |-> correct_count,
     total_count |-> total_count]

\* evaluate_normal_single_turn
evaluate_normal_single_turn(result_entries, problem_entries, possible_answer_entries, agent_category) ==
    IF Len(problem_entries) # Len(possible_answer_entries)
       \/ Len(result_entries) # Len(problem_entries)
    THEN [panic |-> "The length of the model result does not match the length of the prompt or possible answer",
          final_results |-> <<>>]
    ELSE LET g == grade_from(result_entries, problem_entries, possible_answer_entries,
                             agent_category, 1, <<>>, 0)
         IN [panic |-> "none",
             final_results |-> <<Summary(g.correct_count, Len(result_entries))>> \o g.results]

\* ------------------------------------------------------------------------
\* A graded file

\* the number of entries of a graded file
MaxEntries == 2

\* the functions offered to the model
GradeFunctions ==
    <<[name |-> "A", properties |-> [k \in {"s", "x"} |-> IF k = "s" THEN "string" ELSE "integer"],
       required |-> <<"x">>],
      [name |-> "B", properties |-> [k \in {} |-> "string"], required |-> <<>>]>>

\* the calls of the outputs and of the answers
GradeCalls ==
    {[name |-> "A",
      parameters |-> <<[key |-> "x",
                        value |-> [type |-> "Number", negative |-> FALSE, token |-> t]]>>] :
         t \in {"1", "2"}}
    \cup {[name |-> "B", parameters |-> <<>>]}

GradeCallLists == UNION {[1..n -> GradeCalls] : n \in 0..MaxCalls}

\* the names of the offered functions, in key order
NameOrder == <<"A", "B">>

\* the parameters of a call as a JSON object
ParameterObject(parameters) ==
    [x \in {parameters[i].key : i \in 1..Len(parameters)} |->
        value_of(parameters[CHOOSE i \in 1..Len(parameters) : parameters[i].key = x].value)]

\* the calls that bear the name
Named(calls, n) == SelectSeq(calls, LAMBDA c : c.name = n)

\* the members of an answer object that bear the name: the first under the
\* name itself, the k-th after it under name_k
AnswersNamed(calls, n) ==
    [k \in 1..Len(Named(calls, n)) |->
        [name |-> n, suffix |-> k - 1,
         value |-> ParameterObject(Named(calls, n)[k].parameters)]]

\* the answer object that expects the calls
AnswerObject(calls) ==
    [is_object |-> TRUE,
     entries |-> AnswersNamed(calls, NameOrder[1]) \o AnswersNamed(calls, NameOrder[2])]

\* a JSON value that is no object
NotAnObject == [is_object |-> FALSE, entries |-> <<>>]

\* one entry of the three files: the text the model gave and the possible
\* answers of the ground truth (one object, or an array of alternatives)
GradeCases ==
    {[result |-> render(calls), ground_truth |-> <<AnswerObject(expected)>>] :
         calls \in GradeCallLists, expected \in GradeCallLists}
    \cup {[result |-> text,
           ground_truth |-> <<AnswerObject(<<CHOOSE c \in GradeCalls : c.name = "B">>)>>] :
             text \in {T_CHAT, T_MALFORMED, <<"[", "1", "]">>, <<"]", "[", "B", "(", ")", "]">>,
                       <<"ok", "[", "B", "(", ")", "]", "ok">>}}
    \cup {[result |-> <<"[", "A", "(", "x", "=", "1", ",", "s", "=", given, ")", "]">>,
           ground_truth |->
               <<[is_object |-> TRUE,
                  entries |-> <<[name |-> "A", suffix |-> 0,
                                 value |-> [k \in {"s", "x"} |->
                                               IF k = "s" THEN "'wifi'" ELSE "1.0"]]>>]>>] :
             given \in {"'wifi'", "'Wi-Fi'", "'wifi on'", "'a'"}}
    \cup {[result |-> render(<<c>>), ground_truth |-> alternatives] :
             c \in GradeCalls, alternatives \in {<<>>, <<NotAnObject>>}}
    \cup {[result |-> render(<<c>>),
           ground_truth |-> <<AnswerObject(<<d>>), AnswerObject(<<c>>)>>] :
             c \in GradeCalls, d \in GradeCalls}

\* the ids of the entries, by position
Ids == <<"1", "2", "3", "4">>

\* the three files of a category, entry by entry, about to be graded
InitGrade ==
    /\ table = SupportedDatasets
    /\ dataset_files = [d \in DatasetNames |-> <<>>]
    /\ files = [o \in OutputPaths |-> <<>>]
    /\ waiting_queue = <<>>
    /\ executing_pool = EmptyPool
    /\ num_completed = 0
    /\ total_num = 0
    /\ panic = "none"
    /\ ret = NoRet
    /\ last_write = <<>>
    /\ sim = NoSim
    /\ world = NoWorld
    /\ wr = NoWrites
    /\ dec = NoDecoding
    /\ \E n \in 0..MaxEntries, test_category \in {"normal", "agent"} :
           \E cases \in [1..n -> GradeCases] :
               ev = Grading("given", test_category,
                        [i \in 1..n |-> [id |-> Ids[i], function |-> GradeFunctions]],
                        [i \in 1..n |-> [id |-> Ids[i], result |-> cases[i].result]],
                        [i \in 1..n |-> [id |-> Ids[i], ground_truth |-> cases[i].ground_truth]],
                        <<>>)

\* evaluate_normal_single_turn is given the three files
EvaluateNormalSingleTurn ==
    /\ ev.pc = "given"
    /\ \E out \in {evaluate_normal_single_turn(ev.result_entries, ev.problem_entries,
                       ev.possible_answer_entries, ev.test_category = "agent")} :
           /\ panic' = out.panic
           /\ ev' = [ev EXCEPT !.pc = "graded", !.final_results = out.final_results]
    /\ UNCHANGED <<table, dataset_files, files, waiting_queue, executing_pool,
                   num_completed, total_num, ret, last_write, sim, world, wr, dec>>

NextGrade == EvaluateNormalSingleTurn

SpecGrade == InitGrade /\ [][NextGrade]_vars

\* ------------------------------------------------------------------------
\* Travel calls on a configured world

\* the number of travel calls executed on one world
MaxTravelCalls == 2

\* the flights of a configuration: CA1234 departs as in the default, within
\* 24 hours, or has departed
ConfiguredFlights ==
    {[DefaultFlights EXCEPT ![1].depart_time = t] : t \in {1560, 600, -60}}

\* the reservations of a configuration: those of the default, or with the
\* second user's first reservation under the id of the first user's
ConfiguredReservations ==
    {DefaultReservations, [DefaultReservations EXCEPT ![3].reservation_id = "'res_1'"]}

\* the users of a configuration: those of the default, or with 1000 yuan of
\* cash for the first user
ConfiguredUsers ==
    {DefaultUsers, [DefaultUsers EXCEPT !["'user1'"].cash_balance = 10000]}

\* the Travel of the initial configuration of a problem
TravelConfigs ==
    {Travel(users, flights, reservations) :
         users \in ConfiguredUsers, flights \in ConfiguredFlights,
         reservations \in ConfiguredReservations}

\* the optional parameters of the modify_flight calls of the model
Modifications ==
    {<<>>,
     <<Parameter("new_cabin", "'Business Class'")>>,
     <<Parameter("new_cabin", "'Business Class'"),
       Parameter("new_payment_method", "'cash'")>>,
     <<Parameter("new_cabin", "'Economy Class'"),
       Parameter("new_payment_method", "'cash'")>>,
     <<Parameter("add_baggage", "2")>>,
     <<Parameter("add_baggage", "'a'")>>,
     <<Parameter("new_flight_no", "'CZ4321'")>>,
     <<Parameter("new_flight_no", "'MU5678'"), Parameter("new_cabin", "null")>>}

\* the travel calls of the model
TravelCalls ==
    {FunctionCallHygienic(name,
         <<Parameter("user_id", user_id), Parameter("reservation_id", reservation_id),
           Parameter("reason", reason)>>) :
         name \in {"cancel_reservation", "C_R"},
         user_id \in {"'user1'", "'user2'", "'user9'"},
         reservation_id \in {"'res_1'", "'res_2'", "'res_3'", "'res_4'", "'res_9'"},
         reason \in {AirlineCanceled, "'change of plans'"}}
    \cup {FunctionCallHygienic(name,
              <<Parameter("user_id", "'user1'"),
                Parameter("reservation_id", reservation_id)>> \o modification) :
              name \in {"modify_flight", "M_F"},
              reservation_id \in {"'res_1'", "'res_2'", "'res_4'"},
              modification \in Modifications}
    \cup {FunctionCallHygienic("cancel_reservation", <<Parameter("user_id", "'user1'")>>)}
    \cup {FunctionCallHygienic("reserve_flight",
              <<Parameter("user_id", "'user1'"), Parameter("password", password),
                Parameter("flight_no", "'CA1234'"), Parameter("cabin", "'Economy Class'"),
                Parameter("payment_method", "'cash'"), Parameter("baggage_count", "1")>>) :
              password \in {"'password123'", "'password456'"}}

\* a world whose initial configuration holds a Travel
InitTravel ==
    /\ table = SupportedDatasets
    /\ dataset_files = [d \in DatasetNames |-> <<>>]
    /\ files = [o \in OutputPaths |-> <<>>]
    /\ waiting_queue = <<>>
    /\ executing_pool = EmptyPool
    /\ num_completed = 0
    /\ total_num = 0
    /\ panic = "none"
    /\ ret = NoRet
    /\ last_write = <<>>
    /\ sim = NoSim
    /\ wr = NoWrites
    /\ dec = NoDecoding
    /\ ev = NoGrading
    /\ \E travel \in TravelConfigs :
       \E ws \in {[WorldStateDefault EXCEPT !.travel = Present(travel)]} :
           world = World(ws, <<>>, Executed(ws, <<>>), 0)

\* execute_function_calls is given one travel call
ExecuteTravelCall ==
    /\ world.batches < MaxTravelCalls
    /\ \E function_call \in TravelCalls :
       \E ex \in {execute_function_calls(world.world_state, <<function_call>>)} :
           world' = World(world.world_state, <<function_call>>, ex, world.batches + 1)
    /\ UNCHANGED <<table, dataset_files, files, waiting_queue, executing_pool,
                   num_completed, total_num, panic, ret, last_write, sim, wr, dec, ev>>

NextTravel == ExecuteTravelCall

SpecTravel == InitTravel /\ [][NextTravel]_vars

\* ------------------------------------------------------------------------
\* Properties

\* C1 (SpecSerial): in every MultiStep or MultiTurn transcript state, whether
\* of a problem waiting in the queue, of one in the pool, or the one the last
\* handle_python_response left behind (finalized or not), exactly one of
\* needs_llm_response and is_pending_execution is true.
C1_ExactlyOne ==
    \A p \in {waiting_queue[i] : i \in 1..Len(waiting_queue)}
             \cup {executing_pool[k] : k \in DOMAIN executing_pool}
             \cup {ret.problem[i] : i \in 1..Len(ret.problem)} :
        p.state.variant \in AgentVariants =>
            (needs_llm_response(p.state) <=> ~is_pending_execution(p.state))

\* a conversation has just been finalized on the agent's finish message: its
\* last entry is addressed to Execution
C1_Witness ==
    /\ ret.op = "receive_response"
    /\ ret.completed
    /\ ret.problem[1].state.variant \in AgentVariants
    /\ ret.problem[1].state.num_steps >= 2
    /\ is_pending_execution(ret.problem[1].state)

\* C2 (Spec): whatever texts answer the outstanding tasks, the process never
\* dies of a protocol-state assertion of build_python_task or
\* handle_python_response, nor of a response for a problem that is not in the
\* pool.
C2_NoProtocolAssertionFails ==
    panic \notin
        {"Single-turn problem missing previous LLM response",
         "assertion failed: single_turn_state.first_turn",
         "build_python_task called but state is pending execution",
         "In multi-step, dialogue history is initialized with user question",
         "assertion failed: num_steps == 0 || last_sender == Execution",
         "Last recipient cannot be Execution when building Python task",
         "assertion failed: self.identifier == response.identifier",
         "handle_python_response called but state was not waiting for LLM",
         "handle_python_response called but state was pending execution",
         "assertion failed: last_recipient == Agent",
         "MultiStep: after handle_python_response, state should need LLM response",
         "MultiTurn: after agent message to user, state should need LLM response",
         "MultiTurn: after execution, state should need LLM response",
         "MultiTurn: after user message, state should need LLM response",
         "The problem is not in the executing pool"}

\* a task has just been built for a MultiStep problem whose last response did
\* not decode
C2_Witness ==
    /\ ret.op = "next_task"
    /\ ret.some
    /\ panic = "none"
    /\ executing_pool[ret.identifier].state.variant = "MultiStep"
    /\ executing_pool[ret.identifier].state.num_steps >= 1
    /\ Last(executing_pool[ret.identifier].state.dialogue_history).message[1]
           \in {REBUKE[1], "Failed to parse function calls: "}

\* C3 (Spec): while the process is alive, every problem in the queue has
\* status Waiting, every problem in the pool has status Executing and is keyed
\* by its own identifier, and every item of every dataset is held exactly
\* once, in the queue or in the pool, if its record is not in its output file,
\* and not at all if it is.
C3_QueueOrPool ==
    panic = "none" =>
        /\ \A i \in 1..Len(waiting_queue) : waiting_queue[i].status = "Waiting"
        /\ \A k \in DOMAIN executing_pool :
              /\ executing_pool[k].status = "Executing"
              /\ executing_pool[k].identifier = k
        /\ \A p \in 1..Len(all_perturbations), d \in 1..Len(table) :
              \A n \in 1..Len(dataset_files[table[d].name]) :
                 LET id == dataset_files[table[d].name][n]
                     identifier == Identifier(all_perturbations[p], table[d].name, id)
                     path == output_path(all_perturbations[p], table[d].name)
                     places ==
                         Cardinality({i \in 1..Len(waiting_queue) :
                                         waiting_queue[i].identifier = identifier})
                         + (IF identifier \in DOMAIN executing_pool THEN 1 ELSE 0)
                 IN places = IF \E j \in 1..Len(files[path]) : files[path][j].id = id
                             THEN 0 ELSE 1
        /\ \A i \in 1..Len(waiting_queue) :
              \E p \in 1..Len(all_perturbations), d \in 1..Len(table) :
                 \E n \in 1..Len(dataset_files[table[d].name]) :
                    waiting_queue[i].identifier =
                        Identifier(all_perturbations[p], table[d].name,
                                   dataset_files[table[d].name][n])

\* one problem has completed, one has come back unfinished and waits, and one
\* is out
C3_Witness ==
    /\ panic = "none"
    /\ num_completed >= 1
    /\ waiting_queue # <<>>
    /\ Head(waiting_queue).state.num_steps >= 1
    /\ executing_pool # EmptyPool

\* C4 (Spec): next_task on a non-empty queue removes the head and nothing
\* else from the queue, stores the head in the pool under its identifier with
\* status Executing and its ProblemState as it was, leaves every other pool
\* entry, the files and the counters alone, and returns the task built from
\* it; on an empty queue it returns no task and changes nothing.
C4_NextTaskFrame ==
    [][ (ret'.op = "next_task" /\ panic' = "none") =>
          IF waiting_queue = <<>>
          THEN /\ ~ret'.some
               /\ UNCHANGED <<waiting_queue, executing_pool, files, num_completed,
                              total_num>>
          ELSE /\ ret'.some
               /\ ret'.identifier = Head(waiting_queue).identifier
               /\ ret'.task = build_python_task(Head(waiting_queue)).task
               /\ ret'.task.identifier = Head(waiting_queue).identifier
               /\ waiting_queue' = Tail(waiting_queue)
               /\ DOMAIN executing_pool' =
                      DOMAIN executing_pool \cup {Head(waiting_queue).identifier}
               /\ executing_pool'[Head(waiting_queue).identifier] =
                      [Head(waiting_queue) EXCEPT !.status = "Executing"]
               /\ \A k \in DOMAIN executing_pool : executing_pool'[k] = executing_pool[k]
               /\ UNCHANGED <<files, num_completed, total_num>>
      ]_vars

\* next_task has just issued a problem while another was out and a third
\* waits
C4_Witness ==
    /\ ret.op = "next_task"
    /\ ret.some
    /\ Cardinality(DOMAIN executing_pool) = 2
    /\ waiting_queue # <<>>

\* C5 as stated (Spec): a problem that receive_response found incomplete goes
\* to the front of the queue with status Waiting and is the problem the very
\* next next_task call returns: it is still at the front after any response
\* received before that call.
C5_VeryNextNextTask ==
    /\ [][ (ret'.op = "receive_response" /\ ~ret'.completed) =>
             waiting_queue' =
                 <<[ret'.problem[1] EXCEPT !.status = "Waiting"]>> \o waiting_queue
       ]_vars
    /\ [][ (ret.op = "receive_response" /\ ~ret.completed
            /\ ret'.op \in {"next_task", "receive_response"} /\ panic' = "none") =>
             IF ret'.op = "next_task"
             THEN ret'.some /\ ret'.identifier = ret.identifier
             ELSE Head(waiting_queue').identifier = ret.identifier
       ]_vars

\* C5, amended (Spec): a problem that receive_response found incomplete goes
\* to the front of the queue with status Waiting; a next_task call made before
\* any other response is received returns that problem; and in every case the
\* problems that have had a response are queued ahead of every problem that
\* has never been started.
C5_FrontOfQueue ==
    /\ [][ (ret'.op = "receive_response" /\ ~ret'.completed) =>
             waiting_queue' =
                 <<[ret'.problem[1] EXCEPT !.status = "Waiting"]>> \o waiting_queue
       ]_vars
    /\ [][ (ret.op = "receive_response" /\ ~ret.completed
            /\ ret'.op = "next_task" /\ panic' = "none") =>
             (ret'.some /\ ret'.identifier = ret.identifier)
       ]_vars
    /\ [](\A i, j \in 1..Len(waiting_queue) :
             (i < j /\ (waiting_queue[j].state.num_steps > 0
                        \/ ~waiting_queue[j].state.first_turn))
             => (waiting_queue[i].state.num_steps > 0
                 \/ ~waiting_queue[i].state.first_turn))

\* an unfinished problem has just been re-issued while a problem that was
\* never started waits behind it
C5_Witness ==
    /\ ret.op = "next_task"
    /\ ret.some
    /\ \/ executing_pool[ret.identifier].state.num_steps > 0
       \/ ~executing_pool[ret.identifier].state.first_turn
    /\ waiting_queue # <<>>
    /\ Head(waiting_queue).state.num_steps = 0
    /\ Head(waiting_queue).state.first_turn

\* C6 (SpecSerial): every MultiStep and every MultiTurn problem is finalized
\* no later than the response that raises its step counter above MAX_TURNS,
\* whatever the response texts: no problem is still unfinished, in the queue
\* or in the pool, once it has had more than MAX_TURNS responses.
C6_FinalizedAtCap ==
    \A p \in {waiting_queue[i] : i \in 1..Len(waiting_queue)}
             \cup {executing_pool[k] : k \in DOMAIN executing_pool} :
        p.state.variant \in AgentVariants => p.state.num_steps <= MAX_TURNS

\* C7 (SpecSerial): a receive_response in which handle_python_response
\* returned true appended exactly one record, that of the problem, to the
\* problem's output file and touched no other file; one in which it returned
\* false appended nothing; no other operation writes; and no problem still
\* held has a record in its file.
C7_OneRecordOnCompletion ==
    /\ [][ ret'.op = "receive_response" =>
             IF ret'.completed
             THEN /\ Len(last_write') = 1
                  /\ last_write'[1].file = executing_pool[ret'.identifier].output_file
                  /\ last_write'[1].record.id = executing_pool[ret'.identifier].id
                  /\ files' = [files EXCEPT ![last_write'[1].file] =
                                  Append(@, Line(last_write'[1].record))]
             ELSE /\ last_write' = <<>>
                  /\ files' = files
       ]_vars
    /\ [][ ret'.op # "receive_response" => files' = files ]_vars
    /\ [](\A p \in {waiting_queue[i] : i \in 1..Len(waiting_queue)}
                   \cup {executing_pool[k] : k \in DOMAIN executing_pool} :
              \A j \in 1..Len(files[p.output_file]) :
                  files[p.output_file][j].id # p.id)

\* a MultiStep problem has just been finalized by the step cap and its one
\* record written
C7_Witness ==
    /\ ret.op = "receive_response"
    /\ ret.completed
    /\ ret.problem[1].state.variant = "MultiStep"
    /\ ret.problem[1].state.num_steps > MAX_TURNS
    /\ Len(last_write) = 1
    /\ Len(files[last_write[1].file]) = 1

\* C8 (Spec): whatever the process does between its starts, no output file
\* ever holds two records with one id, and no problem in the queue or in the
\* pool is for an item whose record is in its output file.
C8_AtMostOneRecordPerItem ==
    /\ \A path \in OutputPaths :
          \A i, j \in 1..Len(files[path]) :
              files[path][i].id = files[path][j].id => i = j
    /\ \A p \in {waiting_queue[i] : i \in 1..Len(waiting_queue)}
                \cup {executing_pool[k] : k \in DOMAIN executing_pool} :
          \A j \in 1..Len(files[p.output_file]) : files[p.output_file][j].id # p.id

\* the process has just been started again on a file that holds the record of
\* one of the two items of its dataset
C8_Witness ==
    /\ ret.op = "none"
    /\ panic = "none"
    /\ \E p \in 1..Len(all_perturbations), d \in 1..Len(table) :
          /\ Len(dataset_files[table[d].name]) = 2
          /\ Len(files[output_path(all_perturbations[p], table[d].name)]) = 1
          /\ Cardinality({i \in 1..Len(waiting_queue) :
                             waiting_queue[i].output_file =
                                 output_path(all_perturbations[p], table[d].name)}) = 1

\* C9 (Spec): a start of the process completes for the dataset table of
\* every flavor (normal, preference, special, multi-turn, multi-step), and
\* leaves in the queue exactly one problem for each item whose id is not in
\* its output file and none for an item whose id is.
C9_StartupCompletes ==
    ret.op = "none" =>
        /\ panic # "Special single-turn datasets are not supported in this project."
        /\ panic = "none" =>
              \A p \in 1..Len(all_perturbations), d \in 1..Len(table) :
                 \A n \in 1..Len(dataset_files[table[d].name]) :
                    LET id == dataset_files[table[d].name][n]
                        path == output_path(all_perturbations[p], table[d].name)
                    IN Cardinality({i \in 1..Len(waiting_queue) :
                                       waiting_queue[i].identifier =
                                           Identifier(all_perturbations[p],
                                                      table[d].name, id)})
                       = IF \E j \in 1..Len(files[path]) : files[path][j].id = id
                         THEN 0 ELSE 1

\* C10 (Spec): a single-turn problem without the transition perturbation
\* completes on its first response; one with it does not complete on its
\* first response, which writes nothing, is kept as prev_llm_response and
\* clears first_turn, and completes on its second; the record written has the
\* text of the completing response.
C10_SingleTurnTurns ==
    /\ [][ (/\ ret'.op = "receive_response"
            /\ ret'.identifier \in DOMAIN executing_pool
            /\ executing_pool[ret'.identifier].state.variant \in SingleTurnVariants) =>
             IF /\ executing_pool[ret'.identifier].state.has_transition_perturbation
                /\ executing_pool[ret'.identifier].state.first_turn
             THEN /\ ~ret'.completed
                  /\ last_write' = <<>>
                  /\ files' = files
                  /\ Head(waiting_queue').identifier = ret'.identifier
                  /\ Head(waiting_queue').state =
                        [executing_pool[ret'.identifier].state EXCEPT
                            !.first_turn = FALSE,
                            !.prev_llm_response = Some(ret'.response)]
             ELSE /\ ret'.completed
                  /\ last_write' =
                        << [file |-> executing_pool[ret'.identifier].output_file,
                            record |-> NormalResultEntry(
                                           executing_pool[ret'.identifier].id,
                                           ret'.response)] >>
       ]_vars
    /\ [](\A p \in {waiting_queue[i] : i \in 1..Len(waiting_queue)}
                   \cup {executing_pool[k] : k \in DOMAIN executing_pool} :
              p.state.variant \in SingleTurnVariants =>
                  IF p.state.first_turn
                  THEN ~p.state.prev_llm_response.some
                  ELSE /\ p.state.has_transition_perturbation
                       /\ p.state.prev_llm_response.some)

\* a single-turn problem under the transition perturbation has just completed
\* on a second response that differs from its first
C10_Witness ==
    /\ ret.op = "receive_response"
    /\ ret.completed
    /\ ret.problem[1].state.variant \in SingleTurnVariants
    /\ ret.problem[1].state.has_transition_perturbation
    /\ ~ret.problem[1].state.first_turn
    /\ ret.problem[1].state.prev_llm_response.text # ret.response
    /\ last_write[1].record.result = ret.response

\* whether the handler decodes text for a problem in state before, and the
\* text decodes: it is the agent's turn, the MultiStep cap is not passed, the
\* text has no finish marker and is a well-formed call list
DecodesSuccessfully(before, text) ==
    /\ before.variant \in AgentVariants
    /\ before.variant = "MultiStep" => before.num_steps + 1 <= MAX_TURNS
    /\ before.variant = "MultiTurn" =>
           /\ before.dialogue_history # <<>>
           /\ Last(before.dialogue_history).recipient # "User"
    /\ ~contains_finish(text)
    /\ decode_function_list(text).tag = "Ok"

\* the response was appended and answered by the latency notice
Injected(before, after, text) ==
    after.dialogue_history =
        before.dialogue_history \o
            <<DialogueEntry("Agent", "Execution", text),
              DialogueEntry("Execution", "Agent", HIGH_LATENCY)>>

\* C11 (SpecSerial): when an agent problem has handled a response, the
\* high-latency Execution -> Agent entry was injected exactly if the problem
\* has the transition perturbation, its latch was unset and the handler
\* decoded the response as a call list; on that response the latch goes from
\* false to true and the world state is unchanged; a set latch stays set; a
\* problem without the perturbation never has the entry and never the latch.
C11_InjectedOnce ==
    [][(ret'.op = "receive_response" /\ ret'.problem # <<>>
        /\ ret'.identifier \in DOMAIN executing_pool
        /\ IsAgent(ret'.problem[1]))
       => \E before \in {executing_pool[ret'.identifier].state},
             after \in {ret'.problem[1].state} :
            /\ Injected(before, after, ret'.response)
                 <=> (/\ before.has_transition_perturbation
                      /\ ~before.perturbed
                      /\ DecodesSuccessfully(before, ret'.response))
            /\ Injected(before, after, ret'.response)
                 => (/\ after.perturbed
                     /\ after.world_state = before.world_state)
            /\ before.perturbed => after.perturbed
            /\ after.perturbed =>
                 (before.perturbed \/ Injected(before, after, ret'.response))
            /\ ~before.has_transition_perturbation =>
                 (/\ ~after.perturbed
                  /\ \A i \in 1..Len(after.dialogue_history) :
                         after.dialogue_history[i].message # HIGH_LATENCY)]_vars

\* a problem with the perturbation whose latch is set has had a later call
\* list executed: the wifi is on
C11_Witness ==
    /\ ret.op = "receive_response" /\ ret.problem # <<>>
    /\ IsAgent(ret.problem[1])
    /\ ret.problem[1].state.perturbed
    /\ ret.problem[1].state.world_state # InitialWorldState
    /\ Len(SelectSeq(ret.problem[1].state.dialogue_history,
                     LAMBDA e : e.message = HIGH_LATENCY)) = 1

\* the transcripts of the problems the process holds, and of the problem the
\* last receive_response handled
Transcripts ==
    {waiting_queue[i].state.dialogue_history : i \in 1..Len(waiting_queue)}
    \cup {executing_pool[k].state.dialogue_history : k \in DOMAIN executing_pool}
    \cup {ret.problem[i].state.dialogue_history : i \in 1..Len(ret.problem)}

\* C12 (Spec): every entry of every transcript has a sender other than its
\* recipient; an entry sent by Execution is addressed to Agent; an entry
\* addressed to Execution is sent by Agent; no entry sent by User is addressed
\* to Execution.
C12_EntriesWellAddressed ==
    \A t \in Transcripts : \A i \in 1..Len(t) :
        /\ t[i].sender \in DialogueParticipant
        /\ t[i].recipient \in DialogueParticipant
        /\ t[i].sender # t[i].recipient
        /\ t[i].sender = "Execution" => t[i].recipient = "Agent"
        /\ t[i].recipient = "Execution" => t[i].sender = "Agent"
        /\ t[i].sender = "User" => t[i].recipient # "Execution"

\* a MultiTurn transcript in which an agent message was relayed to the user
C12_Witness ==
    \E t \in Transcripts : \E i \in 1..Len(t) :
        /\ t[i].sender = "Agent" /\ t[i].recipient = "User"
        /\ i > 1 /\ t[i - 1].sender = "User"

\* C13 (Spec): no response text aborts the process: the process is running,
\* or it stopped at startup on the dataset table, never inside the handler
\* of a response delivered to a problem of the executing pool.
C13_ResponsesNeverAbort ==
    panic \in {"none", "Special single-turn datasets are not supported in this project."}

\* C14 (SpecWorld): a batch [normal_call, bait_call, another_call] returns
\* exactly one ExecutionResult, the bait error; the trap flag is set; and
\* another_call is not executed: the world is as normal_call alone leaves it,
\* but for the flag.
C14_BaitShortCircuit ==
    (/\ Len(world.function_calls) = 3
     /\ ~is_bait(world.function_calls[1].name)
     /\ is_bait(world.function_calls[2].name))
    => /\ world.results = <<error(BaitMessage(world.function_calls[2].name))>>
       /\ world.world_state.called_a_bait_function
       /\ world.world_state =
            [execute_function_calls(world.before,
                                    <<world.function_calls[1]>>).world_state
                EXCEPT !.called_a_bait_function = TRUE]

\* C15 (SpecWorld): a batch executed on a world state whose trap flag is set
\* leaves the flag set, and a world state whose flag is set fails
\* equals_ground_truth against every ground truth, itself included.
C15_BaitIsPermanent ==
    [][/\ world.world_state.called_a_bait_function
           => world'.world_state.called_a_bait_function
       /\ world'.world_state.called_a_bait_function
           => \A gt \in GroundTruths \cup {world'.world_state,
                                           [world'.world_state EXCEPT
                                               !.called_a_bait_function = FALSE]} :
                  equals_ground_truth(world'.world_state, gt).tag = "Err"]_vars

\* the flag was set by the batch before the last one, and the last batch, of
\* normal calls only, changed the world
C15_Witness ==
    /\ world.before.called_a_bait_function
    /\ world.world_state.called_a_bait_function
    /\ \A i \in 1..Len(world.function_calls) : ~is_bait(world.function_calls[i].name)
    /\ world.world_state # world.before
    /\ \E r \in 1..Len(world.results) : world.results[r].status

\* the sub-states that carry their own copy of the connectivity flags
FlaggedDomains == {"message_api", "reminder_api", "food_platform"}

\* C16 (SpecWorld): in every world state, populated or left by a batch, the
\* wifi and logged_in flags inside every instantiated MessageApi, ReminderApi
\* and FoodPlatform equal the flags of the shared base state.
C16_FlagsMirrored ==
    \A d \in FlaggedDomains :
        (world.world_state[d] # Absent /\ world.world_state.base_api # Absent)
        => world.world_state[d][1].base_api = world.world_state.base_api[1]

\* C17 (SpecWorld): one login_device (or turn_on_wifi) call on a world state
\* with MessageApi and ReminderApi instantiated sets the flag in both
\* sub-states and returns exactly one ExecutionResult.
C17_OneResultPerFlagCall ==
    (/\ Len(world.function_calls) = 1
     /\ world.function_calls[1].name \in {"login_device", "L_D", "turn_on_wifi", "T_O_W"}
     /\ world.before.message_api # Absent
     /\ world.before.reminder_api # Absent)
    => /\ Len(world.results) = 1
       /\ world.function_calls[1].name \in {"login_device", "L_D"}
            => /\ world.world_state.message_api[1].base_api.logged_in
               /\ world.world_state.reminder_api[1].base_api.logged_in
       /\ world.function_calls[1].name \in {"turn_on_wifi", "T_O_W"}
            => /\ world.world_state.message_api[1].base_api.wifi
               /\ world.world_state.reminder_api[1].base_api.wifi

\* call i of the last batch is reached and names no tool
Unrecognized(i) ==
    /\ i \in 1..Len(world.function_calls)
    /\ \A j \in 1..i : ~is_bait(world.function_calls[j].name)
    /\ world.function_calls[i].name \notin DispatchTable

\* the batch was executed as its calls before i, then one failed result and
\* no change for call i, then its calls after i
SkippedOver(i, pre) ==
    \E post \in {execute_function_calls(pre.world_state,
                                        SubSeq(world.function_calls, i + 1,
                                               Len(world.function_calls)))} :
        /\ world.results =
             pre.results
             \o <<error("Sorry, the tool " \o world.function_calls[i].name
                        \o " is currently not available.")>>
             \o post.results
        /\ world.world_state = post.world_state

\* C18 (SpecWorld): a call that is no bait and that the dispatch table does
\* not know yields exactly one failed ExecutionResult, changes nothing in the
\* world, and the calls after it are executed in order.
C18_UnknownToolSkipped ==
    \A i \in 1..Len(world.function_calls) :
        Unrecognized(i)
        => SkippedOver(i, execute_function_calls(world.before,
                                                 SubSeq(world.function_calls, 1, i - 1)))

\* an unknown tool first, then a call that succeeded and changed the world
C18_Witness ==
    /\ Len(world.function_calls) = 2
    /\ Unrecognized(1)
    /\ Len(world.results) = 2
    /\ ~world.results[1].status
    /\ world.results[2].status
    /\ world.world_state # world.before

Domains == {"base_api", "message_api", "reminder_api", "food_platform", "travel"}

\* the domain's own equality check
DomainCheck(d, sub_state, ground_truth) ==
    CASE d = "base_api" -> base_equals_ground_truth(sub_state, ground_truth)
      [] d = "message_api" -> message_equals_ground_truth(sub_state, ground_truth)
      [] OTHER -> deep_equals_ground_truth(sub_state, ground_truth)

\* the output with domain d removed if it is there, instantiated if not
Toggled(self, d) ==
    [self EXCEPT ![d] = IF @ = Absent
                        THEN populate_with_involved_classes(
                                 WorldStateDefault,
                                 <<"BaseApi", "MessageApi", "ReminderApi",
                                   "FoodPlatform", "Travel">>).world_state[d]
                        ELSE Absent]

\* C19 (SpecWorld): equals_ground_truth(self, gt) is Ok exactly when the trap
\* flag of self is unset and, for every domain present in gt, self has the
\* domain and the domain's own check passes; a domain absent from gt has no
\* influence: the verdict is the same with that domain of self removed or
\* instantiated.
C19_VerdictByGroundTruthDomains ==
    \A gt \in GroundTruths :
        /\ equals_ground_truth(world.world_state, gt).tag = "Ok"
             <=> /\ ~world.world_state.called_a_bait_function
                 /\ \A d \in Domains :
                        gt[d] # Absent
                        => /\ world.world_state[d] # Absent
                           /\ DomainCheck(d, world.world_state[d][1], gt[d][1]).tag = "Ok"
        /\ \A d \in Domains :
               gt[d] = Absent
               => equals_ground_truth(Toggled(world.world_state, d), gt).tag
                    = equals_ground_truth(world.world_state, gt).tag

\* a world state left by a batch passes against a ground truth that lacks a
\* domain the world state has, and fails against another ground truth
C19_Witness ==
    /\ world.batches > 0
    /\ world.world_state # world.before
    /\ \E gt \in GroundTruths :
           /\ equals_ground_truth(world.world_state, gt).tag = "Ok"
           /\ \E d \in Domains : gt[d] = Absent /\ world.world_state[d] # Absent
           /\ \E d \in Domains : gt[d] # Absent
    /\ \E gt \in GroundTruths :
           /\ equals_ground_truth(world.world_state, gt).tag = "Err"
           /\ ~world.world_state.called_a_bait_function

\* the threads that are between borrow_mut and the drop of file_ref
Writers(o) ==
    {t \in Threads : /\ wr.pc[t] \in {"borrowed", "record_written", "line_written"}
                     /\ wr.problem[t].output_file = o}

\* the writes of a file form whole lines: a record piece at every odd
\* position, at every even position the line end written by the same call
WholeLines(disk) ==
    \A i \in 1..Len(disk) :
        IF i % 2 = 1 THEN disk[i].piece = "record"
        ELSE disk[i].piece = "newline" /\ disk[i].by = disk[i - 1].by

\* C20 (SpecWrite): for every output file, at most one thread holds the
\* handle, every thread that is writing holds it, each record makes a line
\* of its own, and a record without its line end is the record of the thread
\* now writing it.
C20_WritesExclusive ==
    \A o \in OutputPaths :
        /\ Cardinality(wr.borrowed[o]) <= 1
        /\ Writers(o) = wr.borrowed[o]
        /\ WholeLines(wr.disk[o])
        /\ Len(wr.disk[o]) % 2 = 1
             => \E t \in Writers(o) :
                    /\ wr.pc[t] = "record_written"
                    /\ Last(wr.disk[o]) = RecordPiece(wr.problem[t], t)
        /\ \A i, j \in 1..Len(wr.disk[o]) :
               (i # j /\ wr.disk[o][i].piece = "record" /\ wr.disk[o][j].piece = "record")
               => wr.disk[o][i].id # wr.disk[o][j].id

\* two threads completed problems of the same file, and while one is between
\* its two writes the other waits with a third
C20_Witness ==
    \E o \in OutputPaths, t, u \in Threads :
        /\ t # u
        /\ wr.pc[t] = "record_written" /\ wr.problem[t].output_file = o
        /\ wr.pc[u] = "calling" /\ wr.problem[u].output_file = o
        /\ Len(wr.disk[o]) = 3
        /\ wr.disk[o][1].by = u

\* the entries of a transcript that the user and the agent said to each other,
\* in transcript order, as the lines of a prompt
Spoken(dialogue_history) ==
    LET between == SelectSeq(dialogue_history,
                             LAMBDA e : /\ e.sender \in {"User", "Agent"}
                                        /\ e.recipient \in {"User", "Agent"})
    IN [k \in 1..Len(between) |->
           [speaker |-> IF between[k].sender = "User" THEN "user" ELSE "agent",
            message |-> between[k].message]]

\* the problem that the last next_task issued is a MultiTurn problem whose
\* last transcript entry is addressed to the user
UserTurnIssued ==
    /\ ret.op = "next_task"
    /\ ret.some
    /\ ret.identifier \in DOMAIN executing_pool
    /\ executing_pool[ret.identifier].state.variant = "MultiTurn"
    /\ executing_pool[ret.identifier].state.dialogue_history # <<>>
    /\ Last(executing_pool[ret.identifier].state.dialogue_history).recipient = "User"

\* C25 (SpecSerial): the prompt built for the user simulator when the last
\* entry of a MultiTurn transcript is addressed to the user holds exactly the
\* User -> Agent and Agent -> User entries, in transcript order, and so no
\* entry sent to or by Execution
C25_UserPromptOmitsToolCalls ==
    UserTurnIssued =>
        /\ ret.task.role = "user"
        /\ ret.task.user_prompt =
               Spoken(executing_pool[ret.identifier].state.dialogue_history)

\* a MultiStep problem in flight whose next response raises the step counter
\* above the cap
AtCap(problem) ==
    /\ problem.state.variant = "MultiStep"
    /\ problem.state.num_steps = MAX_TURNS

\* what the response text does to a problem at the cap: the problem completes,
\* the handler does not abort, transcript, milestones and world state stay,
\* and the one record written carries them
CapOutcome(problem, h) ==
    /\ h.panic = "none"
    /\ h.completed
    /\ h.problem.state.dialogue_history = problem.state.dialogue_history
    /\ h.problem.state.mile_stones = problem.state.mile_stones
    /\ h.problem.state.world_state = problem.state.world_state
    /\ h.written = <<AgentResultEntry(problem.id,
                                      get_inference_message(problem.state),
                                      problem.state.world_state,
                                      problem.state.mile_stones)>>

\* C27 (SpecSerial): in MultiStep the response that raises the step counter
\* above 20 finalizes the problem at once, whatever its text: it is not
\* appended, not decoded (a text on which the decoder aborts is harmless), not
\* recorded as a milestone and not executed, and the record written carries
\* world state, milestones and transcript as they were before the response
C27_CapFinalizesAtOnce ==
    \A identifier \in DOMAIN executing_pool :
        AtCap(executing_pool[identifier]) =>
            \A text \in SerialTexts :
                CapOutcome(executing_pool[identifier],
                           handle_python_response(executing_pool[identifier],
                                                  PythonResponse(identifier, text)))

\* a MultiStep problem has had its twenty-first response, a well-formed call
\* list, and was finalized with the transcript the twenty responses left
C27_Witness ==
    /\ ret.op = "receive_response"
    /\ ret.completed
    /\ ret.response = T_CALLS
    /\ ret.problem # <<>>
    /\ ret.problem[1].state.variant = "MultiStep"
    /\ ret.problem[1].state.num_steps = MAX_TURNS + 1
    /\ Len(last_write) = 1
    /\ Len(last_write[1].record.conversation) = 2 * MAX_TURNS + 1
    /\ Len(last_write[1].record.output_function_calls) = MAX_TURNS

\* the problem waits for a response of the agent
AgentTurn(problem) ==
    \/ problem.state.variant = "MultiStep"
    \/ /\ problem.state.variant = "MultiTurn"
       /\ problem.state.dialogue_history # <<>>
       /\ Last(problem.state.dialogue_history).recipient # "User"

\* what a response with the marker does on the agent's turn: the problem
\* completes without abort, world state and milestones stay, the transcript
\* grows by the response as an Agent -> Execution entry and by nothing else,
\* and the one record written carries that transcript
MarkerOutcome(problem, text, h) ==
    /\ h.panic = "none"
    /\ h.completed
    /\ h.problem.state.world_state = problem.state.world_state
    /\ h.problem.state.mile_stones = problem.state.mile_stones
    /\ h.problem.state.dialogue_history =
           Append(problem.state.dialogue_history,
                  DialogueEntry("Agent", "Execution", text))
    /\ h.written = <<agent_finish_conversation(problem.id, h.problem.state)>>
    /\ Last(h.written[1].conversation) = [speaker |-> "agent", message |-> text]

\* the marker responses given to the problems of a set
MarkerFinalizes(problems) ==
    \A identifier \in DOMAIN executing_pool :
        (AgentTurn(executing_pool[identifier]) /\ executing_pool[identifier] \in problems) =>
            \A text \in {t \in SerialTexts : contains_finish(t)} :
                MarkerOutcome(executing_pool[identifier], text,
                              handle_python_response(executing_pool[identifier],
                                                     PythonResponse(identifier, text)))

\* C28 as stated (SpecSerial): on the agent's turn of MultiStep and MultiTurn
\* every response with the marker finalizes the problem before any decoding
\* and the written transcript ends with that response
C28_MarkerAlwaysAppended ==
    MarkerFinalizes({executing_pool[i] : i \in DOMAIN executing_pool})

\* C28 (SpecSerial): on the agent's turn of MultiTurn, and in MultiStep while
\* the response does not raise the step counter above 20, a response with the
\* marker finalizes the problem before any decoding, also when the text is a
\* well-formed call list: no call is executed, no milestone is recorded, no
\* Execution -> Agent entry is appended and the written transcript ends with
\* the response as an Agent -> Execution entry
C28_MarkerFinalizesBeforeDecoding ==
    MarkerFinalizes({executing_pool[i] : i \in {j \in DOMAIN executing_pool :
                                                  ~AtCap(executing_pool[j])}})

\* an agent problem that had executed calls before was finalized by a
\* well-formed call list with the marker in it
C28_Witness ==
    /\ ret.op = "receive_response"
    /\ ret.completed
    /\ ret.response = T_FINISH_CALLS
    /\ decode_function_list(ret.response).tag = "Ok"
    /\ ret.problem # <<>>
    /\ ret.problem[1].state.variant \in AgentVariants
    /\ ret.problem[1].state.mile_stones # <<>>
    /\ Last(ret.problem[1].state.dialogue_history) =
           DialogueEntry("Agent", "Execution", T_FINISH_CALLS)
    /\ Len(last_write) = 1

\* a MultiTurn problem that nobody has spoken in yet
Unopened(problem) ==
    /\ problem.state.variant = "MultiTurn"
    /\ problem.state.dialogue_history = <<>>

\* what the opening response does: it becomes the one User -> Agent entry,
\* the problem does not complete, nothing is written, and the task built next
\* for the problem is the agent's
OpeningOutcome(problem, text, h) ==
    /\ h.panic = "none"
    /\ ~h.completed
    /\ h.written = <<>>
    /\ h.problem.state.dialogue_history = <<DialogueEntry("User", "Agent", text)>>
    /\ build_python_task(h.problem).panic = "none"
    /\ build_python_task(h.problem).task.role = "assistant"
    /\ build_python_task(h.problem).task.system_prompt =
           "multi_turn_agent_prompt_system_en"

\* C29 (SpecSerial): in MultiTurn with an empty transcript the response is
\* appended as a User -> Agent entry and handle_response returns false for
\* every text, the marker included; nothing is written and the next task
\* built is an agent task
C29_OpeningNeverFinishes ==
    \A identifier \in DOMAIN executing_pool :
        Unopened(executing_pool[identifier]) =>
            \A text \in SerialTexts :
                OpeningOutcome(executing_pool[identifier], text,
                               handle_python_response(executing_pool[identifier],
                                                      PythonResponse(identifier, text)))

\* a MultiTurn problem was opened with the marker and has been issued again,
\* to the agent, with nothing written to its output file
C29_Witness ==
    /\ ret.op = "next_task"
    /\ ret.some
    /\ ret.task.role = "assistant"
    /\ ret.identifier \in DOMAIN executing_pool
    /\ executing_pool[ret.identifier].state.variant = "MultiTurn"
    /\ executing_pool[ret.identifier].state.dialogue_history =
           <<DialogueEntry("User", "Agent", T_FINISH)>>
    /\ files[executing_pool[ret.identifier].output_file] = <<>>

\* the agent of a MultiTurn problem is to answer
MultiTurnAgentTurn(problem) ==
    /\ problem.state.variant = "MultiTurn"
    /\ AgentTurn(problem)

\* the text is no call list: it does not decode and does not open a bracket
PlainText(text) ==
    /\ decode_function_list(text).tag = "Err"
    /\ ~starts_with_bracket(text)

\* what a plain text does on the agent's turn: the transcript is one entry
\* longer, Agent -> User with the text; no milestone, the same world state,
\* nothing written, not completed; the task built next is the user
\* simulator's
RelayOutcome(problem, text, h) ==
    /\ h.panic = "none"
    /\ ~h.completed
    /\ h.written = <<>>
    /\ h.problem.state.dialogue_history =
           Append(problem.state.dialogue_history, DialogueEntry("Agent", "User", text))
    /\ h.problem.state.mile_stones = problem.state.mile_stones
    /\ h.problem.state.world_state = problem.state.world_state
    /\ build_python_task(h.problem).panic = "none"
    /\ build_python_task(h.problem).task.role = "user"

\* the plain texts of a set, given on the agent's turn of MultiTurn
PlainTextRelayed(texts) ==
    \A identifier \in DOMAIN executing_pool :
        MultiTurnAgentTurn(executing_pool[identifier]) =>
            \A text \in {t \in texts : PlainText(t)} :
                RelayOutcome(executing_pool[identifier], text,
                             handle_python_response(executing_pool[identifier],
                                                    PythonResponse(identifier, text)))

\* C30 as stated (SpecSerial): on the agent's turn of MultiTurn every response
\* that does not decode and does not start with "[" is relayed to the user
C30_EveryPlainTextRelayed == PlainTextRelayed(SerialTexts)

\* C30 (SpecSerial): on the agent's turn of MultiTurn a response without the
\* marker that does not decode and does not start with "[" leaves the
\* transcript exactly one entry longer, Agent -> User with the response text;
\* no milestone is recorded, the world state is unchanged, handle_response
\* returns false and the next task built for the problem is a user-simulator
\* task
C30_PlainTextRelayed ==
    PlainTextRelayed({t \in SerialTexts : ~contains_finish(t)})

\* the agent of a MultiTurn problem answered with plain text after it had
\* executed calls, and the problem has been issued again, to the user
\* simulator
C30_Witness ==
    /\ ret.op = "next_task"
    /\ ret.some
    /\ ret.task.role = "user"
    /\ ret.identifier \in DOMAIN executing_pool
    /\ executing_pool[ret.identifier].state.variant = "MultiTurn"
    /\ executing_pool[ret.identifier].state.mile_stones # <<>>
    /\ Last(executing_pool[ret.identifier].state.dialogue_history) =
           DialogueEntry("Agent", "User", T_CHAT)

\* C23 (SpecDecode): a sequence of calls whose parameter values are strings,
\* integers, floats, booleans, null, lists and string-keyed dicts, rendered as
\* a textual call list and decoded by decode_function_list, comes back equal:
\* the same calls in the same order, each with the same parameters in the
\* same order
C23_RoundTrip ==
    (dec.pc = "decoded" /\ dec.kind = "rendered") =>
        dec.outcome = Ok(structured(dec.calls))

\* C24 (SpecDecode): decode_function_list returns an error value, never a
\* decoded sequence and never an abort, for every text that is not a single
\* list display: a bare call, several top-level statements, an expression
\* that is no list, or no expression at all
C24_NonListIsError ==
    (dec.pc = "decoded"
         /\ dec.kind \in {"bare call", "statements", "non-list", "malformed"}) =>
        dec.outcome.tag = "Err"

\* a bare call whose parameter is an integer on which the value decoder would
\* abort has been refused as not being a list
C24_Witness ==
    /\ dec.pc = "decoded"
    /\ dec.kind = "bare call"
    /\ \E i \in 1..Len(dec.text) : dec.text[i] \in BigIntTokens
    /\ dec.outcome = Err("Python function calls parsing failed: expected a list expression")

\* C21: for N graded entries the grader returns exactly 1 + N records: the
\* summary first, then one verdict record for every entry, valid or not, in
\* input order; the summary's total_count is N, its correct_count the number
\* of verdicts that are valid, its accuracy correct_count / total_count, or 0
\* when N is 0
C21_OneVerdictPerEntry ==
    (ev.pc = "graded" /\ panic = "none") =>
        /\ Len(ev.final_results) = 1 + Len(ev.result_entries)
        /\ \A i \in 1..Len(ev.result_entries) :
               ev.final_results[1 + i].id = ev.problem_entries[i].id
        /\ ev.final_results[1].total_count = Len(ev.result_entries)
        /\ ev.final_results[1].correct_count =
               Cardinality({i \in 2..Len(ev.final_results) : ev.final_results[i].valid})
        /\ ev.final_results[1].accuracy_thousandths * ev.final_results[1].total_count =
               1000 * ev.final_results[1].correct_count

\* the rearrangements of n positions
Rearrangements(n) == {p \in [1..n -> 1..n] : \A i, j \in 1..n : p[i] = p[j] => i = j}

\* whether normal_checker finds the decoded calls valid against the answer
Passes(func_descriptions, decoded_output, possible_answer, agent_category) ==
    normal_checker(func_descriptions, decoded_output, possible_answer, agent_category) = ""

\* the answer object of the expected calls listed in another order: the
\* members of one name exchange their values
Reordered(possible_answer, p) ==
    [possible_answer EXCEPT !.entries =
        [i \in 1..Len(possible_answer.entries) |->
            [possible_answer.entries[i] EXCEPT !.value = possible_answer.entries[p[i]].value]]]

\* whether each expected call can be given a decoded call of its own that
\* agrees with it
MultisetMatch(func_descriptions, decoded_output, possible_answer, agent_category) ==
    /\ Len(decoded_output) = Len(possible_answer.entries)
    /\ \E p \in Rearrangements(Len(decoded_output)) :
           \A i \in 1..Len(decoded_output) :
               /\ decoded_output[p[i]].name = possible_answer.entries[i].name
               /\ find_description(func_descriptions, possible_answer.entries[i].name) # Absent
               /\ simple_function_checker(
                      find_description(func_descriptions, possible_answer.entries[i].name)[1],
                      decoded_output[p[i]], possible_answer.entries[i].value,
                      agent_category) = ""

\* the claim for one decoded output and one answer object
OrderFree(func_descriptions, decoded_output, possible_answer, agent_category) ==
    /\ \A p \in Rearrangements(Len(decoded_output)) :
           Passes(func_descriptions, [i \in 1..Len(decoded_output) |-> decoded_output[p[i]]],
                  possible_answer, agent_category)
               = Passes(func_descriptions, decoded_output, possible_answer, agent_category)
    /\ \A p \in Rearrangements(Len(possible_answer.entries)) :
           (\A i \in 1..Len(possible_answer.entries) :
                possible_answer.entries[p[i]].name = possible_answer.entries[i].name)
               => Passes(func_descriptions, decoded_output, Reordered(possible_answer, p),
                         agent_category)
                      = Passes(func_descriptions, decoded_output, possible_answer,
                               agent_category)
    /\ Passes(func_descriptions, decoded_output, possible_answer, agent_category)
           => MultisetMatch(func_descriptions, decoded_output, possible_answer,
                            agent_category)

\* the decoded output of a graded entry
DecodedOutput(result_entry) ==
    IF extract_outermost_bracket_content(result_entry.result) = Absent
    THEN Err("no bracket content")
    ELSE decode_ast(extract_outermost_bracket_content(result_entry.result)[1])

\* C22: the verdict of normal grading is the same for every order of the
\* expected calls and for every order of the decoded calls, and it is a
\* failure when the decoded calls hold a matching call more or fewer times
\* than the expected calls do
C22_MultisetMatching ==
    ev.pc = "graded" =>
        \A i \in 1..Len(ev.result_entries) :
            DecodedOutput(ev.result_entries[i]).tag = "Ok" =>
                \A a \in 1..Len(ev.possible_answer_entries[i].ground_truth) :
                    ev.possible_answer_entries[i].ground_truth[a].is_object =>
                        OrderFree(ev.problem_entries[i].function,
                                  DecodedOutput(ev.result_entries[i]).val,
                                  ev.possible_answer_entries[i].ground_truth[a],
                                  ev.test_category = "agent")


\* whether the last call was a cancel_reservation that succeeded
CancelSucceeded ==
    /\ world.batches > 0
    /\ world.function_calls[1].name \in {"cancel_reservation", "C_R"}
    /\ Len(world.results) = 1
    /\ world.results[1].status

\* the sequence without its element at position i
Without(seq, i) == SubSeq(seq, 1, i - 1) \o SubSeq(seq, i + 1, Len(seq))

\* whether after holds the reservations and the flights of before with the
\* user's reservation of that id gone and one seat more on its flight
CanceledExactly(before, after, user_id, reservation_id) ==
    \E r \in 1..Len(before.reservations) :
        /\ before.reservations[r].reservation_id = reservation_id
        /\ before.reservations[r].user_id = user_id
        /\ after.reservations = Without(before.reservations, r)
        /\ \E f \in 1..Len(before.flights) :
               /\ before.flights[f].flight_no = before.reservations[r].flight_no
               /\ after.flights = [before.flights EXCEPT ![f].seats_available = @ + 1]

\* C26: a successful cancel_reservation removes exactly the cancelled
\* reservation from the reservations and adds exactly 1 to seats_available of
\* that reservation's flight; every other reservation and every other flight
\* is as before
C26_CancelRemovesOneReservation ==
    CancelSucceeded =>
        CanceledExactly(world.before.travel[1], world.world_state.travel[1],
                        lookup(world.function_calls[1].parameters, "user_id")[1],
                        lookup(world.function_calls[1].parameters, "reservation_id")[1])

\* whether the transcript after holds the transcript before, entry by entry,
\* at its start
Extends(after, before) ==
    /\ Len(after) >= Len(before)
    /\ SubSeq(after, 1, Len(before)) = before

\* what a response does to the transcript of a problem
AppendOnly(problem, h) ==
    /\ Extends(h.problem.state.dialogue_history, problem.state.dialogue_history)
    /\ (h.panic = "none" /\ ~h.completed) =>
           Len(h.problem.state.dialogue_history) > Len(problem.state.dialogue_history)

\* C31 (SpecSerial): handle_python_response never removes, reorders or alters
\* an entry that was in the transcript before the call: the transcript before
\* is a prefix of the transcript after, whatever the response text, and a call
\* that returns false has added at least one entry
C31_TranscriptAppendOnly ==
    \A identifier \in DOMAIN executing_pool :
        IsAgent(executing_pool[identifier]) =>
            \A text \in SerialTexts :
                AppendOnly(executing_pool[identifier],
                           handle_python_response(executing_pool[identifier],
                                                  PythonResponse(identifier, text)))

\* a MultiTurn problem with a transcript of three entries at least has had a
\* response of the agent that returned false and whose entry was readdressed
\* to the user within the call
C31_Witness ==
    /\ ret.op = "receive_response"
    /\ ~ret.completed
    /\ ret.problem # <<>>
    /\ ret.problem[1].state.variant = "MultiTurn"
    /\ Len(ret.problem[1].state.dialogue_history) >= 3
    /\ Last(ret.problem[1].state.dialogue_history).sender = "Agent"
    /\ Last(ret.problem[1].state.dialogue_history).recipient = "User"

\* the transcript of a MultiStep problem after n responses: the question of
\* the user to the agent, then n times an entry of the agent to Execution and
\* the reply of Execution to the agent
QuestionAndPairs(dialogue_history, n) ==
    /\ Len(dialogue_history) = 1 + 2 * n
    /\ dialogue_history[1].sender = "User"
    /\ dialogue_history[1].recipient = "Agent"
    /\ \A k \in 1..n :
           /\ dialogue_history[2 * k].sender = "Agent"
           /\ dialogue_history[2 * k].recipient = "Execution"
           /\ dialogue_history[2 * k + 1].sender = "Execution"
           /\ dialogue_history[2 * k + 1].recipient = "Agent"

\* C32 (SpecSerial): the transcript of a MultiStep problem that waits for its
\* next task, in the queue or issued and unanswered in the pool, is the
\* question User -> Agent followed by exactly num_steps pairs Agent ->
\* Execution, Execution -> Agent; its length is 1 + 2 * num_steps, and User
\* is no recipient and the sender of the first entry only
C32_MultiStepTranscriptShape ==
    \A p \in {waiting_queue[i] : i \in 1..Len(waiting_queue)}
             \cup {executing_pool[k] : k \in DOMAIN executing_pool} :
        p.state.variant = "MultiStep" =>
            QuestionAndPairs(p.state.dialogue_history, p.state.num_steps)

\* a MultiStep problem is back in the queue after twenty responses, among them
\* one that did not decode and one whose calls were executed
C32_Witness ==
    \E i \in 1..Len(waiting_queue) :
        /\ waiting_queue[i].state.variant = "MultiStep"
        /\ waiting_queue[i].state.num_steps = MAX_TURNS
        /\ Len(waiting_queue[i].state.mile_stones) >= 1
        /\ Len(waiting_queue[i].state.mile_stones) < MAX_TURNS

\* C33 (SpecWorld): for a batch without a bait call execute_function_calls
\* returns exactly one ExecutionResult per call, whichever sub-states the
\* WorldState holds
C33_OneResultPerCall ==
    (world.batches > 0 /\ \A i \in 1..Len(world.function_calls) :
                              ~is_bait(world.function_calls[i].name)) =>
        Len(world.results) = Len(world.function_calls)

\* the batch began with a send_message whose parameters do not deserialize
\* into SendMessageArgs
UndeserializableFirst ==
    /\ world.batches > 0
    /\ world.function_calls # <<>>
    /\ world.function_calls[1].name \in {"send_message", "S_M"}
    /\ from_value(world.function_calls[1].parameters,
                  {"sender_name", "receiver_name", "message"}).tag = "Err"

\* the call yielded one failed result and changed nothing: the batch left the
\* world and the further results that the remaining calls alone would
FailedAndPassedOver(before, function_calls, results, world_state) ==
    /\ results # <<>>
    /\ ~results[1].status
    /\ Tail(results) = execute_function_calls(before, Tail(function_calls)).results
    /\ world_state = execute_function_calls(before, Tail(function_calls)).world_state

\* C34 (SpecWorld): a call to a known handler whose parameters do not
\* deserialize into the handler's argument record yields exactly one failed
\* ExecutionResult for that call and leaves the world state unchanged, and the
\* remaining calls of the batch are executed
C34_UndeserializableCallFails ==
    UndeserializableFirst =>
        FailedAndPassedOver(world.before, world.function_calls, world.results,
                            world.world_state)

\* the keys of a parameter list, in order
Keys(parameters) == [p \in 1..Len(parameters) |-> parameters[p].key]

\* every call of the decoded list has the keyword arguments of the call
\* written, one entry each and in the order written
KeywordsInSourceOrder(calls, decoded) ==
    /\ Len(decoded) = Len(calls)
    /\ \A c \in 1..Len(calls) :
           Keys(decoded[c].parameters) = Keys(calls[c].parameters)

\* C35 (SpecDecode): each keyword argument of a call becomes exactly one
\* parameter entry in source order, and a call written with positional
\* arguments is not decoded into a StructuredCall
C35_KeywordArgumentsOnly ==
    dec.pc = "decoded" =>
        /\ (dec.kind = "rendered" /\ dec.outcome.tag = "Ok") =>
               KeywordsInSourceOrder(dec.calls, dec.outcome.val)
        /\ dec.kind = "positional" => dec.outcome.tag # "Ok"

\* every problem loaded is waiting, out, or counted as completed
Conserved ==
    num_completed + Len(waiting_queue) + Cardinality(DOMAIN executing_pool) = total_num

\* C36 (Spec): at every reachable scheduler state num_completed + |waiting
\* queue| + |executing pool| equals total_num, and no call of next_task or
\* receive_response on a live scheduler decreases num_completed
C36_ProblemsConserved ==
    /\ []Conserved
    /\ [][(panic' = "none" /\ ret'.op \in {"next_task", "receive_response"}) =>
              num_completed' >= num_completed]_vars

\* two problems have completed, the second just now, one waits and one is out
C36_Witness ==
    /\ panic = "none"
    /\ num_completed >= 2
    /\ num_completed < total_num
    /\ ret.op = "receive_response"
    /\ ret.completed
    /\ waiting_queue # <<>>
    /\ executing_pool # EmptyPool

\* the scheduler is alive and has nothing left to do
AllCompleted ==
    /\ panic = "none"
    /\ waiting_queue = <<>>
    /\ executing_pool = EmptyPool
    /\ num_completed = total_num

\* the run ends one way or the other: every problem is completed, or the
\* process has aborted
CompletedOrAborted == <>(AllCompleted \/ panic # "none")

\* C37 (SpecLive): on a workload of single-turn and MultiStep problems, with
\* next_task called while problems wait and every issued task answered, by
\* any response texts, eventually the waiting queue and the executing pool are
\* both empty and num_completed equals total_num
C37_EventuallyAllCompleted == <>AllCompleted

\* the call given to the Travel was one of reserve_flight, modify_flight and
\* cancel_reservation, and its one result is a failure
TravelOperationFailed ==
    /\ world.batches > 0
    /\ world.before.travel # Absent
    /\ Len(world.function_calls) = 1
    /\ world.function_calls[1].name \in
           {"reserve_flight", "R_F", "modify_flight", "M_F", "cancel_reservation", "C_R"}
    /\ Len(world.results) = 1
    /\ ~world.results[1].status

\* C38 (SpecTravel): a reserve_flight, modify_flight or cancel_reservation
\* that returns a failed ExecutionResult leaves the users, the flights and the
\* reservations of the Travel exactly as they were before the call
C38_FailedOperationChangesNothing ==
    TravelOperationFailed => world.world_state.travel = world.before.travel

\* the parameters of the reserve_flight call given to the Travel
ReserveArgs ==
    from_value(world.function_calls[1].parameters,
               {"user_id", "password", "flight_no", "cabin", "payment_method"})

ReserveBaggage == usize_from_value(lookup(world.function_calls[1].parameters, "baggage_count"))

\* the position of the flight of the call among the flights before the call
ReserveFlight ==
    Find(world.before.travel[1].flights, LAMBDA f : f.flight_no = ReserveArgs.val.flight_no)

\* what the reservation costs, in tenths of a yuan
ReserveCost ==
    10 * (cabin_price(world.before.travel[1].flights[ReserveFlight], ReserveArgs.val.cabin)
          + calculate_baggage_fee(
                world.before.travel[1].users[ReserveArgs.val.user_id].membership_level,
                ReserveArgs.val.cabin, ReserveBaggage.val))

\* reserve_flight was called with an existing user and the user's password, a
\* flight that is available and has seats, a known cabin and a balance that
\* covers the cost
ReserveCallInOrder ==
    /\ world.batches > 0
    /\ world.before.travel # Absent
    /\ Len(world.function_calls) = 1
    /\ world.function_calls[1].name \in {"reserve_flight", "R_F"}
    /\ ReserveArgs.tag = "Ok"
    /\ ReserveBaggage.tag = "Ok"
    /\ authenticate_user(world.before.travel[1], ReserveArgs.val.user_id,
                         ReserveArgs.val.password)
    /\ ReserveFlight # 0
    /\ world.before.travel[1].flights[ReserveFlight].status = "'available'"
    /\ world.before.travel[1].flights[ReserveFlight].seats_available > 0
    /\ ReserveArgs.val.cabin \in {"'Economy Class'", "'Business Class'"}
    /\ ReserveArgs.val.payment_method = "'cash'"
    /\ world.before.travel[1].users[ReserveArgs.val.user_id].cash_balance >= ReserveCost

\* the reservation was made: one more reservation, for the user and the
\* flight, one seat less on the flight, the cost taken from the balance
Reserved(before, after) ==
    /\ Len(after.reservations) = Len(before.reservations) + 1
    /\ SubSeq(after.reservations, 1, Len(before.reservations)) = before.reservations
    /\ after.reservations[Len(after.reservations)].user_id = ReserveArgs.val.user_id
    /\ after.reservations[Len(after.reservations)].flight_no = ReserveArgs.val.flight_no
    /\ Len(after.flights) = Len(before.flights)
    /\ after.flights[ReserveFlight].seats_available
           = before.flights[ReserveFlight].seats_available - 1
    /\ ReserveArgs.val.user_id \in DOMAIN after.users
    /\ after.users[ReserveArgs.val.user_id].cash_balance
           = before.users[ReserveArgs.val.user_id].cash_balance - ReserveCost

\* C39 (SpecTravel): reserve_flight called with an existing user id and that
\* user's password, an available flight with seats, a known cabin and a
\* balance covering the cost succeeds, appends exactly one reservation for the
\* user and the flight, takes one seat and reduces the balance by the cabin
\* price plus the baggage fee
C39_ReserveFlightSucceeds ==
    ReserveCallInOrder =>
        /\ Len(world.results) = 1
        /\ world.results[1].status
        /\ Reserved(world.before.travel[1], world.world_state.travel[1])

\* no user of the Travel owes money
NoNegativeBalance(travel) ==
    \A u \in DOMAIN travel.users :
        travel.users[u].cash_balance >= 0 /\ travel.users[u].bank_balance >= 0

\* the position of the reservation that a successful cancel_reservation
\* removed, and of its flight, in the Travel before the call
CanceledReservation ==
    Find(world.before.travel[1].reservations,
         LAMBDA x : /\ x.reservation_id = lookup(world.function_calls[1].parameters,
                                                 "reservation_id")[1]
                    /\ x.user_id = lookup(world.function_calls[1].parameters, "user_id")[1])

CanceledFlight ==
    Find(world.before.travel[1].flights,
         LAMBDA f : f.flight_no =
             world.before.travel[1].reservations[CanceledReservation].flight_no)

\* the refund of a successful cancel_reservation was added to the user's cash
RefundCredited ==
    CancelSucceeded =>
        world.world_state.travel[1].users[
            lookup(world.function_calls[1].parameters, "user_id")[1]].cash_balance
        = world.before.travel[1].users[
              lookup(world.function_calls[1].parameters, "user_id")[1]].cash_balance
          + refund_amount(world.before.travel[1].flights[CanceledFlight],
                world.before.travel[1].reservations[CanceledReservation].cabin,
                lookup(world.function_calls[1].parameters, "reason")[1])

\* C40 (SpecTravel): no sequence of travel operations makes a cash_balance or
\* bank_balance negative, a charge above the selected balance being refused,
\* and an operation that refunds an amount increases the balance by that
\* amount
C40_BalancesNeverNegative ==
    /\ world.world_state.travel # Absent => NoNegativeBalance(world.world_state.travel[1])
    /\ RefundCredited

====
